---- MODULE Spec2Model ----
(***************************************************************************)
(* KinectXRRuntime: the handle tables, the session / swapchain / frame     *)
(* loop state machines and the four table mutexes of                       *)
(* src/src/runtime/kinect_xr_runtime.cpp, as a state machine over          *)
(* application threads.                                                    *)
(*                                                                         *)
(* A thread is idle, blocked at the first mutex of a call, or inside one   *)
(* runtime call.  A call is cut at the places where the code can block: at *)
(* every mutex acquisition and at the sleep of waitFrame.  A critical      *)
(* section that takes one mutex, does not block inside and releases it is  *)
(* one step; a handler that takes a second mutex while holding the first,  *)
(* or sleeps while holding one, stops at a label in between with the first *)
(* mutex recorded as held.                                                 *)
(***************************************************************************)
EXTENDS Naturals, Integers, Sequences, FiniteSets, TLC

\* ------------------------------------------------------------------ bounds
MaxInstances == 1
MaxSessions == 2
MaxSwapchains == 1
MaxAcquires == 4
MaxFrames == 2
MaxClock == 34
MaxParallel == 2
MaxHandles == 2
MaxStale == 1
MaxCapacity == 4
MaxTimestamp == 2
MaxFrameId == 2
MaxBroadcasts == 1
MaxWindows == 2
MaxStall == 100

\* ------------------------------------------------------- program constants
ImageCount == 3
TargetFrameTime == 33
FormatBGRA8Unorm == 80
FormatR16Uint == 13
KinectWidth == 640
KinectHeight == 480
STREAM_TYPE_RGB == 1
STREAM_TYPE_DEPTH == 2
FRAME_INTERVAL_MS == 33
rate_limit_ms == 500
FRAME_WIDTH == 640
FRAME_HEIGHT == 480
RGB_FRAME_SIZE == FRAME_WIDTH * FRAME_HEIGHT * 3
DEPTH_FRAME_SIZE == FRAME_WIDTH * FRAME_HEIGHT * 2

Threads == {"t1", "t2"}
NoThread == "none"
Mutexes == {"instanceMutex_", "sessionMutex_", "spaceMutex_", "swapchainMutex_",
            "frameCache", "frameCache_"}

VARIABLES
    instances_,        \* XrInstance -> InstanceData, the live instances
    nextInstanceId_,
    nextSystemId_,
    sessions_,         \* XrSession -> SessionData, the live sessions
    nextSessionId_,
    spaces_,           \* XrSpace -> SpaceData, the live reference spaces
    nextSpaceId_,
    swapchains_,       \* XrSwapchain -> SwapchainData, the live swapchains
    nextSwapchainId_,
    mutex,             \* mutex name -> the thread holding it, or NoThread
    clock,             \* std::chrono::steady_clock, in milliseconds
    pc,                \* thread -> "idle", "blocked" or the label it stands at
    frame,             \* thread -> arguments and locals of the call in progress
    ret,               \* thread -> the last call that returned, with its result
    hEnqueued,         \* history: live instance -> every event pushed on its queue
    hPolled,           \* history: live instance -> every event pollEvent handed out
    hAcquired,         \* history: live swapchain -> every index acquire handed out
    hReleased,         \* history: live swapchain -> the number of images released
    hScript,           \* history: how far the calls so far follow the life cycle script
    hHandles,          \* history: per table, the handles created (in order) and destroyed
    buffer,            \* thread -> the array its last enumeration call was handed, or
                       \*   its copy of a cached frame
    frameCache,        \* "frameCache" (of the session), "frameCache_" (of the bridge)
    pump,              \* the event thread of the device: its position, its frame
    device,            \* KinectDevice
    server,            \* BridgeServer
    clients_,          \* connection -> ClientState, the connected clients
    broadcaster,       \* the broadcast thread: its position and its locals
    conn,              \* thread -> "open" or "closed": the connection it serves
    hSent,             \* history: connection -> what was sent on it since it opened
    hDriver            \* history: when a tilt command last went on to the device

vars == <<instances_, nextInstanceId_, nextSystemId_, sessions_, nextSessionId_,
          spaces_, nextSpaceId_, swapchains_, nextSwapchainId_, mutex, clock, pc, frame,
          ret, hEnqueued, hPolled, hAcquired, hReleased, hScript, hHandles, buffer,
          frameCache, pump, device, server, clients_, broadcaster, conn, hSent, hDriver>>

instVars == <<instances_, nextInstanceId_, nextSystemId_>>
sessVars == <<sessions_, nextSessionId_>>
spaceVars == <<spaces_, nextSpaceId_>>
swapVars == <<swapchains_, nextSwapchainId_>>
histVars == <<hEnqueued, hPolled, hAcquired>>
\* What the calls on the handle tables leave alone.
bridgeVars == <<frameCache, pump, device, server, clients_, broadcaster, conn, hSent,
                hDriver>>
restVars == <<buffer, bridgeVars>>
\* The handle tables and their histories: what device and bridge leave alone.
xrVars == <<instVars, sessVars, spaceVars, swapVars, histVars, hReleased, hHandles>>
\* What the enumeration functions leave alone.
tableVars == <<xrVars, mutex, clock, bridgeVars>>

InstanceIds == 1..MaxInstances
SessionIds == 1..MaxSessions

RunningStates == {"SYNCHRONIZED", "VISIBLE", "FOCUSED"}

NoFrame == [op |-> "none", a |-> 0, n |-> 0, e |-> "", f |-> "", x |-> 0, h |-> 0]
NoEvent == [session |-> 0, state |-> "XR_SESSION_STATE_UNKNOWN"]
NoReturn == [op |-> "none", a |-> 0, res |-> "", out |-> 0, ev |-> NoEvent]

\* ------------------------------------------------------------ data records
NewInstanceData == [system |-> 0, eventQueue |-> <<>>]

NewFrameState == [frameInProgress |-> FALSE, lastFrameTime |-> 0, frameCount |-> 0]

NewFrameCache == [rgbValid |-> FALSE, depthValid |-> FALSE]

NewSessionData(inst, sysId) ==
    [instance |-> inst, systemId |-> sysId, state |-> "IDLE",
     viewConfigurationType |-> "MAX_ENUM",
     frameState |-> NewFrameState, frameCache |-> NewFrameCache,
     kinectDevice |-> "null"]

\* metalTextures: the three textures are there (TRUE) or null; uploaded: the slot the
\* last texture upload wrote, ImageCount while there has been none.
NewSwapchainData(sess, w, ht, fmt) ==
    [session |-> sess, width |-> w, height |-> ht, format |-> fmt,
     imageCount |-> ImageCount, currentImageIndex |-> 0, imageAcquired |-> FALSE,
     metalTextures |-> FALSE, uploaded |-> ImageCount]

\* ---------------------------------------------------------------- helpers
Erase(table, h) == [x \in DOMAIN table \ {h} |-> table[x]]

toXrSessionState(state) ==
    CASE state = "IDLE" -> "XR_SESSION_STATE_IDLE"
      [] state = "READY" -> "XR_SESSION_STATE_READY"
      [] state = "SYNCHRONIZED" -> "XR_SESSION_STATE_SYNCHRONIZED"
      [] state = "VISIBLE" -> "XR_SESSION_STATE_VISIBLE"
      [] state = "FOCUSED" -> "XR_SESSION_STATE_FOCUSED"
      [] state = "STOPPING" -> "XR_SESSION_STATE_STOPPING"
      [] OTHER -> "XR_SESSION_STATE_UNKNOWN"

StateChangedEvent(session, newState) ==
    [session |-> session, state |-> toXrSessionState(newState)]

\* Fault: the event is pushed at the front of the queue.
queueSessionStateChanged_front(queues, inst, session, newState) ==
    [queues EXCEPT ![inst].eventQueue = <<StateChangedEvent(session, newState)>> \o @]

\* The queues after the event is pushed on the queue of instance inst.
queueSessionStateChanged(queues, inst, session, newState) ==
    [queues EXCEPT ![inst].eventQueue = Append(@, StateChangedEvent(session, newState))]

\* The same push on the history of instance inst.
LogEnqueued(log, inst, session, newState) ==
    [log EXCEPT ![inst] = Append(@, StateChangedEvent(session, newState))]

Free(m) == mutex[m] = NoThread
Holds(t, m) == mutex[m] = t
Lock(t, m) == [mutex EXCEPT ![m] = t]
Unlock(m) == [mutex EXCEPT ![m] = NoThread]

Call(op, a, n, e) ==
    [op |-> op, a |-> a, n |-> n, e |-> e, f |-> "", x |-> 0, h |-> 0]

\* The position in the life cycle create, begin, end, destroy, poll * 7 that the calls
\* returned so far have followed on instance i and session s without any other call in
\* between (k calls of it are done; 0: none).
NoScript == [k |-> 0, i |-> 0, s |-> 0]

ScriptNext(h, call, res, out) ==
    IF call.op = "createInstance"
    THEN [k |-> 1, i |-> out, s |-> 0]
    ELSE IF h.k = 1 /\ call.op = "getSystem" /\ call.a = h.i
            /\ call.e = "HEAD_MOUNTED_DISPLAY"
    THEN [h EXCEPT !.k = 2]
    ELSE IF h.k = 2 /\ call.op = "createSession" /\ call.a = h.i
            /\ h.i \in DOMAIN instances_ /\ call.n = instances_[h.i].system
            /\ call.e = "metalBinding"
    THEN [h EXCEPT !.k = 3, !.s = out]
    \* the device is available: neither initialize nor startStreams has failed
    ELSE IF h.k = 3 /\ call.op = "beginSession" /\ call.a = h.s
            /\ call.e = "PRIMARY_MONO"
            /\ res \notin {"XR_ERROR_FORM_FACTOR_UNAVAILABLE", "XR_ERROR_RUNTIME_FAILURE"}
    THEN [h EXCEPT !.k = 4]
    ELSE IF h.k = 4 /\ call.op = "endSession" /\ call.a = h.s
    THEN [h EXCEPT !.k = 5]
    ELSE IF h.k = 5 /\ call.op = "destroySession" /\ call.a = h.s
    THEN [h EXCEPT !.k = 6]
    ELSE IF h.k \in 6..12 /\ call.op = "pollEvent" /\ call.a = h.i
    THEN [h EXCEPT !.k = h.k + 1]
    ELSE NoScript

\* The call of thread t returns res, with the output out and the event ev.
Returned(t, call, res, out, ev) ==
    /\ pc' = [pc EXCEPT ![t] = "idle"]
    /\ frame' = [frame EXCEPT ![t] = NoFrame]
    /\ ret' = [ret EXCEPT ![t] = [op |-> call.op, a |-> call.a, res |-> res,
                                  out |-> out, ev |-> ev]]
    /\ hScript' = ScriptNext(hScript, call, res, out)

Return(t, call, res, out) == Returned(t, call, res, out, NoEvent)

\* The call in progress of thread t returns.
ReturnFrame(t, res, out) == Return(t, frame[t], res, out)

\* Thread t goes on inside its call: it stands at label l, its locals are h.
Goto(t, l, call, h) ==
    /\ pc' = [pc EXCEPT ![t] = l]
    /\ frame' = [frame EXCEPT ![t] = [call EXCEPT !.h = h]]
    /\ UNCHANGED <<ret, hScript>>

\* Thread t is at the start of the call: it makes it now, or it made it earlier and
\* has been waiting for the call's first mutex since.
Enter(t, call) ==
    \/ pc[t] = "idle"
    \/ pc[t] = "blocked" /\ frame[t] = call

\* The handle values a caller passes: every value handed out so far, and the next one,
\* which no table holds yet.
HandleArgs(nextId, max) == 1..(IF nextId <= max THEN nextId ELSE max)

\* The handle tables, and the history of a run in which no handle has been created.
Tables == {"instance", "session", "space", "swapchain"}

NoHandles == [created |-> [k \in Tables |-> <<>>], destroyed |-> [k \in Tables |-> {}]]

\* The history after handle h of table k is handed out by a create / erased by a
\* destroy.
LogCreated(k, h) == [hHandles EXCEPT !.created[k] = Append(@, h)]

LogDestroyed(k, h) == [hHandles EXCEPT !.destroyed[k] = @ \cup {h}]

\* The live handles of table k, and the handles created in it so far.
Live(k) ==
    CASE k = "instance" -> DOMAIN instances_
      [] k = "session" -> DOMAIN sessions_
      [] k = "space" -> DOMAIN spaces_
      [] k = "swapchain" -> DOMAIN swapchains_

Created(k) == {hHandles.created[k][j] : j \in 1..Len(hHandles.created[k])}

\* ------------------------------------------------------ instance and system
createInstance(t) ==
    /\ Enter(t, Call("createInstance", 0, 0, ""))
    /\ Free("instanceMutex_")
    /\ instances_' = (nextInstanceId_ :> NewInstanceData) @@ instances_
    /\ nextInstanceId_' = nextInstanceId_ + 1
    /\ hEnqueued' = (nextInstanceId_ :> <<>>) @@ hEnqueued
    /\ hPolled' = (nextInstanceId_ :> <<>>) @@ hPolled
    /\ hHandles' = LogCreated("instance", nextInstanceId_)
    /\ Return(t, Call("createInstance", 0, 0, ""), "XR_SUCCESS", nextInstanceId_)
    /\ UNCHANGED <<restVars, spaceVars, hReleased, nextSystemId_, sessVars, swapVars, mutex, clock, hAcquired>>

\* Fault: the sessions of the instance are destroyed with it.
destroyInstance_withSessions(t, instance) ==
    /\ Enter(t, Call("destroyInstance", instance, 0, ""))
    /\ Free("instanceMutex_")
    /\ instance \in DOMAIN instances_
    /\ instances_' = Erase(instances_, instance)
    /\ sessions_' = [s \in {x \in DOMAIN sessions_ : sessions_[x].instance # instance}
                        |-> sessions_[s]]
    /\ hEnqueued' = Erase(hEnqueued, instance)
    /\ hPolled' = Erase(hPolled, instance)
    /\ hHandles' = LogDestroyed("instance", instance)
    /\ Return(t, Call("destroyInstance", instance, 0, ""), "XR_SUCCESS", 0)
    /\ UNCHANGED <<restVars, spaceVars, hReleased, nextInstanceId_, nextSystemId_, nextSessionId_,
                   swapVars, mutex, clock, hAcquired>>

destroyInstance(t, instance) ==
    /\ Enter(t, Call("destroyInstance", instance, 0, ""))
    /\ Free("instanceMutex_")
    /\ IF instance \notin DOMAIN instances_
       THEN /\ Return(t, Call("destroyInstance", instance, 0, ""), "XR_ERROR_HANDLE_INVALID", 0)
            /\ UNCHANGED <<instances_, hEnqueued, hPolled, hHandles>>
       ELSE /\ instances_' = Erase(instances_, instance)
            /\ hEnqueued' = Erase(hEnqueued, instance)
            /\ hPolled' = Erase(hPolled, instance)
            /\ hHandles' = LogDestroyed("instance", instance)
            /\ Return(t, Call("destroyInstance", instance, 0, ""), "XR_SUCCESS", 0)
    /\ UNCHANGED <<restVars, spaceVars, hReleased, nextInstanceId_, nextSystemId_, sessVars, swapVars, mutex, clock, hAcquired>>

\* Fault: every call mints a new system id.
getSystem_mintAlways(t, instance, formFactor) ==
    /\ Enter(t, Call("getSystem", instance, 0, formFactor))
    /\ Free("instanceMutex_")
    /\ instance \in DOMAIN instances_
    /\ formFactor = "HEAD_MOUNTED_DISPLAY"
    /\ instances_' = [instances_ EXCEPT ![instance].system = nextSystemId_]
    /\ nextSystemId_' = nextSystemId_ + 1
    /\ Return(t, Call("getSystem", instance, 0, formFactor), "XR_SUCCESS", nextSystemId_)
    /\ UNCHANGED <<restVars, spaceVars, hReleased, hHandles, nextInstanceId_, sessVars, swapVars,
                   mutex, clock, histVars>>

getSystem(t, instance, formFactor) ==
    /\ Enter(t, Call("getSystem", instance, 0, formFactor))
    /\ Free("instanceMutex_")
    /\ IF instance \notin DOMAIN instances_
       THEN /\ Return(t, Call("getSystem", instance, 0, formFactor), "XR_ERROR_HANDLE_INVALID", 0)
            /\ UNCHANGED <<instances_, nextSystemId_>>
       ELSE IF formFactor # "HEAD_MOUNTED_DISPLAY"
       THEN /\ Return(t, Call("getSystem", instance, 0, formFactor), "XR_ERROR_FORM_FACTOR_UNSUPPORTED", 0)
            /\ UNCHANGED <<instances_, nextSystemId_>>
       ELSE IF instances_[instance].system = 0
       THEN /\ instances_' = [instances_ EXCEPT ![instance].system = nextSystemId_]
            /\ nextSystemId_' = nextSystemId_ + 1
            /\ Return(t, Call("getSystem", instance, 0, formFactor), "XR_SUCCESS", nextSystemId_)
       ELSE /\ Return(t, Call("getSystem", instance, 0, formFactor), "XR_SUCCESS", instances_[instance].system)
            /\ UNCHANGED <<instances_, nextSystemId_>>
    /\ UNCHANGED <<restVars, spaceVars, hReleased, hHandles, nextInstanceId_, sessVars, swapVars, mutex, clock, histVars>>

\* Fault: the newest event is handed out, not the oldest.
pollEvent_newest(t, instance) ==
    /\ Enter(t, Call("pollEvent", instance, 0, ""))
    /\ Free("instanceMutex_")
    /\ instance \in DOMAIN instances_
    /\ instances_[instance].eventQueue # <<>>
    /\ LET q == instances_[instance].eventQueue IN
       /\ instances_' = [instances_ EXCEPT ![instance].eventQueue = SubSeq(q, 1, Len(q) - 1)]
       /\ Returned(t, Call("pollEvent", instance, 0, ""), "XR_SUCCESS", 0, q[Len(q)])
       /\ hPolled' = [hPolled EXCEPT ![instance] = Append(@, q[Len(q)])]
    /\ UNCHANGED <<restVars, spaceVars, hReleased, hHandles, nextInstanceId_, nextSystemId_, sessVars, swapVars, mutex, clock,
                   hEnqueued, hAcquired>>

pollEvent(t, instance) ==
    /\ Enter(t, Call("pollEvent", instance, 0, ""))
    /\ Free("instanceMutex_")
    /\ IF instance \notin DOMAIN instances_
       THEN /\ Return(t, Call("pollEvent", instance, 0, ""), "XR_ERROR_HANDLE_INVALID", 0)
            /\ UNCHANGED <<instances_, hPolled>>
       ELSE IF instances_[instance].eventQueue = <<>>
       THEN /\ Return(t, Call("pollEvent", instance, 0, ""), "XR_EVENT_UNAVAILABLE", 0)
            /\ UNCHANGED <<instances_, hPolled>>
       ELSE /\ instances_' = [instances_ EXCEPT ![instance].eventQueue = Tail(@)]
            /\ Returned(t, Call("pollEvent", instance, 0, ""), "XR_SUCCESS", 0,
                        Head(instances_[instance].eventQueue))
            /\ hPolled' = [hPolled EXCEPT ![instance] =
                               Append(@, Head(instances_[instance].eventQueue))]
    /\ UNCHANGED <<restVars, spaceVars, hReleased, hHandles, nextInstanceId_, nextSystemId_, sessVars, swapVars, mutex, clock,
                   hEnqueued, hAcquired>>

\* ----------------------------------------------------------------- session
\* A structure of a next chain: its type tag and, in a Metal graphics binding, its
\* command queue.
MetalBinding(commandQueue) ==
    [type |-> "XR_TYPE_GRAPHICS_BINDING_METAL_KHR", commandQueue |-> commandQueue]

UnknownStructure == [type |-> "XR_TYPE_UNKNOWN", commandQueue |-> "null"]

NoBinding == [type |-> "nullptr", commandQueue |-> "null"]

\* The next chains a caller hands to createSession, by name, each from createInfo->next
\* to the end of the chain.
NextChains ==
    [none |-> <<>>,
     metalBinding |-> <<MetalBinding("queue")>>,
     nullQueue |-> <<MetalBinding("null")>>,
     unknownOnly |-> <<UnknownStructure>>,
     unknownThenMetal |-> <<UnknownStructure, MetalBinding("queue")>>,
     metalThenUnknown |-> <<MetalBinding("queue"), UnknownStructure>>,
     nullQueueThenMetal |-> <<MetalBinding("null"), MetalBinding("queue")>>]

\* createSession, lines 217-227: the walk along the chain to the first structure with
\* the Metal binding's type, nullptr at the end of the chain.
RECURSIVE metalBinding(_)
metalBinding(nextPtr) ==
    IF nextPtr = <<>>
    THEN NoBinding
    ELSE IF Head(nextPtr).type = "XR_TYPE_GRAPHICS_BINDING_METAL_KHR"
    THEN Head(nextPtr)
    ELSE metalBinding(Tail(nextPtr))

\* Fault: only the structure at the head of the chain is looked at.
createSession_headOnly(t, instance, systemId, binding) ==
    /\ Enter(t, Call("createSession", instance, systemId, binding))
    /\ Free("instanceMutex_")
    /\ IF instance \notin DOMAIN instances_
       THEN Return(t, Call("createSession", instance, systemId, binding), "XR_ERROR_HANDLE_INVALID", 0)
       ELSE IF instances_[instance].system = 0 \/ instances_[instance].system # systemId
       THEN Return(t, Call("createSession", instance, systemId, binding), "XR_ERROR_SYSTEM_INVALID", 0)
       ELSE IF NextChains[binding] = <<>> \/ Head(NextChains[binding]) # MetalBinding("queue")
       THEN Return(t, Call("createSession", instance, systemId, binding), "XR_ERROR_GRAPHICS_DEVICE_INVALID", 0)
       ELSE Goto(t, "createSession_limit", Call("createSession", instance, systemId, binding), 0)
    /\ UNCHANGED <<restVars, spaceVars, hReleased, hHandles, instVars, sessVars, swapVars, mutex, clock, histVars>>

\* createSession, lines 204-235: the instance and system checks under instanceMutex_,
\* then the walk of the next chain named binding for the Metal binding and the check
\* of its command queue.
createSession(t, instance, systemId, binding) ==
    /\ Enter(t, Call("createSession", instance, systemId, binding))
    /\ Free("instanceMutex_")
    /\ IF instance \notin DOMAIN instances_
       THEN Return(t, Call("createSession", instance, systemId, binding), "XR_ERROR_HANDLE_INVALID", 0)
       ELSE IF instances_[instance].system = 0 \/ instances_[instance].system # systemId
       THEN Return(t, Call("createSession", instance, systemId, binding), "XR_ERROR_SYSTEM_INVALID", 0)
       ELSE IF metalBinding(NextChains[binding]) = NoBinding
       THEN Return(t, Call("createSession", instance, systemId, binding), "XR_ERROR_GRAPHICS_DEVICE_INVALID", 0)
       ELSE IF metalBinding(NextChains[binding]).commandQueue = "null"
       THEN Return(t, Call("createSession", instance, systemId, binding), "XR_ERROR_GRAPHICS_DEVICE_INVALID", 0)
       ELSE Goto(t, "createSession_limit", Call("createSession", instance, systemId, binding), 0)
    /\ UNCHANGED <<restVars, spaceVars, hReleased, hHandles, instVars, sessVars, swapVars, mutex, clock, histVars>>

\* Fault: the scan finds no session.
createSession_limit_noScan(t) ==
    /\ pc[t] = "createSession_limit"
    /\ Free("sessionMutex_")
    /\ Goto(t, "createSession_insert", frame[t], 0)
    /\ UNCHANGED <<restVars, spaceVars, hReleased, hHandles, instVars, sessVars, swapVars, mutex, clock, histVars>>

\* createSession, lines 237-245: the one-session-per-instance scan, in its own
\* critical section of sessionMutex_.
createSession_limit(t) ==
    /\ pc[t] = "createSession_limit"
    /\ Free("sessionMutex_")
    /\ IF \E s \in DOMAIN sessions_ : sessions_[s].instance = frame[t].a
       THEN ReturnFrame(t, "XR_ERROR_LIMIT_REACHED", 0)
       ELSE Goto(t, "createSession_insert", frame[t], 0)
    /\ UNCHANGED <<restVars, spaceVars, hReleased, hHandles, instVars, sessVars, swapVars, mutex, clock, histVars>>

\* createSession, lines 247-258: sessionMutex_ is taken again and kept to the end of
\* the call; the session is inserted in state IDLE.
createSession_insert(t) ==
    /\ pc[t] = "createSession_insert"
    /\ Free("sessionMutex_")
    /\ sessions_' = (nextSessionId_ :> NewSessionData(frame[t].a, frame[t].n)) @@ sessions_
    /\ nextSessionId_' = nextSessionId_ + 1
    /\ mutex' = Lock(t, "sessionMutex_")
    /\ hHandles' = LogCreated("session", nextSessionId_)
    /\ Goto(t, "createSession_queue", frame[t], nextSessionId_)
    /\ UNCHANGED <<restVars, spaceVars, hReleased, instVars, swapVars, clock, histVars>>

\* createSession, lines 260-270: under instanceMutex_ too, IDLE -> READY and its event,
\* if the instance is still there.
createSession_queue(t) ==
    /\ pc[t] = "createSession_queue"
    /\ Holds(t, "sessionMutex_")
    /\ Free("instanceMutex_")
    /\ LET i == frame[t].a
           h == frame[t].h IN
       IF i \in DOMAIN instances_
       THEN /\ sessions_' = [sessions_ EXCEPT ![h].state = "READY"]
            /\ instances_' = queueSessionStateChanged(instances_, i, h, "READY")
            /\ hEnqueued' = LogEnqueued(hEnqueued, i, h, "READY")
       ELSE UNCHANGED <<sessions_, instances_, hEnqueued>>
    /\ mutex' = Unlock("sessionMutex_")
    /\ ReturnFrame(t, "XR_SUCCESS", frame[t].h)
    /\ UNCHANGED <<restVars, spaceVars, hReleased, hHandles, nextInstanceId_, nextSystemId_, nextSessionId_, swapVars, clock,
                   hPolled, hAcquired>>

\* Fault: a running session is destroyed like any other.
destroySession_noRunningCheck(t, session) ==
    /\ Enter(t, Call("destroySession", session, 0, ""))
    /\ Free("sessionMutex_")
    /\ IF session \notin DOMAIN sessions_
       THEN /\ Return(t, Call("destroySession", session, 0, ""), "XR_ERROR_HANDLE_INVALID", 0)
            /\ UNCHANGED <<sessions_, hHandles>>
       ELSE /\ sessions_' = Erase(sessions_, session)
            /\ hHandles' = LogDestroyed("session", session)
            /\ Return(t, Call("destroySession", session, 0, ""), "XR_SUCCESS", 0)
    /\ UNCHANGED <<restVars, spaceVars, hReleased, instVars, nextSessionId_, swapVars, mutex, clock, histVars>>

destroySession(t, session) ==
    /\ Enter(t, Call("destroySession", session, 0, ""))
    /\ Free("sessionMutex_")
    /\ IF session \notin DOMAIN sessions_
       THEN /\ Return(t, Call("destroySession", session, 0, ""), "XR_ERROR_HANDLE_INVALID", 0)
            /\ UNCHANGED <<sessions_, hHandles>>
       ELSE IF sessions_[session].state \in {"SYNCHRONIZED", "VISIBLE", "FOCUSED"}
       THEN /\ Return(t, Call("destroySession", session, 0, ""), "XR_ERROR_SESSION_RUNNING", 0)
            /\ UNCHANGED <<sessions_, hHandles>>
       ELSE /\ sessions_' = Erase(sessions_, session)
            /\ hHandles' = LogDestroyed("session", session)
            /\ Return(t, Call("destroySession", session, 0, ""), "XR_SUCCESS", 0)
    /\ UNCHANGED <<restVars, spaceVars, hReleased, instVars, nextSessionId_, swapVars, mutex, clock, histVars>>

\* Fault: the session is begun from whatever state it is in.
beginSession_noReadyCheck(t, session, viewConfigurationType) ==
    /\ Enter(t, Call("beginSession", session, 0, viewConfigurationType))
    /\ Free("sessionMutex_")
    /\ IF session \notin DOMAIN sessions_
       THEN /\ Return(t, Call("beginSession", session, 0, viewConfigurationType),
                      "XR_ERROR_HANDLE_INVALID", 0)
            /\ UNCHANGED <<sessions_, mutex>>
       ELSE IF viewConfigurationType # "PRIMARY_MONO"
       THEN /\ Return(t, Call("beginSession", session, 0, viewConfigurationType),
                      "XR_ERROR_VIEW_CONFIGURATION_TYPE_UNSUPPORTED", 0)
            /\ UNCHANGED <<sessions_, mutex>>
       ELSE /\ sessions_' = [sessions_ EXCEPT
                                ![session].viewConfigurationType = viewConfigurationType,
                                ![session].kinectDevice = "streaming",
                                ![session].state = "SYNCHRONIZED"]
            /\ mutex' = Lock(t, "sessionMutex_")
            /\ Goto(t, "beginSession_queue",
                    Call("beginSession", session, 0, viewConfigurationType), 0)
    /\ UNCHANGED <<restVars, spaceVars, hReleased, hHandles, instVars, nextSessionId_, swapVars, clock, histVars>>

\* beginSession, lines 318-380, under sessionMutex_, which is kept: the checks, the
\* device (initialize and startStreams answer as the hardware decides), and the step
\* to SYNCHRONIZED.
beginSession(t, session, viewConfigurationType) ==
    /\ Enter(t, Call("beginSession", session, 0, viewConfigurationType))
    /\ Free("sessionMutex_")
    /\ IF session \notin DOMAIN sessions_
       THEN /\ Return(t, Call("beginSession", session, 0, viewConfigurationType), "XR_ERROR_HANDLE_INVALID", 0)
            /\ UNCHANGED <<sessions_, mutex>>
       ELSE IF viewConfigurationType # "PRIMARY_MONO"
       THEN /\ Return(t, Call("beginSession", session, 0, viewConfigurationType),
                      "XR_ERROR_VIEW_CONFIGURATION_TYPE_UNSUPPORTED", 0)
            /\ UNCHANGED <<sessions_, mutex>>
       ELSE IF sessions_[session].state # "READY"
       THEN /\ Return(t, Call("beginSession", session, 0, viewConfigurationType), "XR_ERROR_SESSION_NOT_READY", 0)
            /\ UNCHANGED <<sessions_, mutex>>
       ELSE \E deviceError \in {"None", "DeviceNotFound", "StartFailed"} :
            IF deviceError = "DeviceNotFound"
            THEN /\ sessions_' = [sessions_ EXCEPT
                                     ![session].viewConfigurationType = viewConfigurationType]
                 /\ Return(t, Call("beginSession", session, 0, viewConfigurationType), "XR_ERROR_FORM_FACTOR_UNAVAILABLE", 0)
                 /\ UNCHANGED mutex
            ELSE IF deviceError = "StartFailed"
            THEN /\ sessions_' = [sessions_ EXCEPT
                                     ![session].viewConfigurationType = viewConfigurationType]
                 /\ Return(t, Call("beginSession", session, 0, viewConfigurationType), "XR_ERROR_RUNTIME_FAILURE", 0)
                 /\ UNCHANGED mutex
            ELSE /\ sessions_' = [sessions_ EXCEPT
                                     ![session].viewConfigurationType = viewConfigurationType,
                                     ![session].kinectDevice = "streaming",
                                     ![session].state = "SYNCHRONIZED"]
                 /\ mutex' = Lock(t, "sessionMutex_")
                 /\ Goto(t, "beginSession_queue",
                         Call("beginSession", session, 0, viewConfigurationType), 0)
    /\ UNCHANGED <<restVars, spaceVars, hReleased, hHandles, instVars, nextSessionId_, swapVars, clock, histVars>>

\* beginSession, lines 381-393: under instanceMutex_ too, the three events and the
\* steps to VISIBLE and FOCUSED, if the instance is still there.
beginSession_queue(t) ==
    /\ pc[t] = "beginSession_queue"
    /\ Holds(t, "sessionMutex_")
    /\ Free("instanceMutex_")
    /\ LET s == frame[t].a
           i == sessions_[s].instance IN
       IF i \in DOMAIN instances_
       THEN /\ instances_' =
                queueSessionStateChanged(
                    queueSessionStateChanged(
                        queueSessionStateChanged(instances_, i, s, "SYNCHRONIZED"),
                        i, s, "VISIBLE"),
                    i, s, "FOCUSED")
            /\ hEnqueued' =
                LogEnqueued(LogEnqueued(LogEnqueued(hEnqueued, i, s, "SYNCHRONIZED"),
                                        i, s, "VISIBLE"), i, s, "FOCUSED")
            /\ sessions_' = [sessions_ EXCEPT ![s].state = "FOCUSED"]
       ELSE UNCHANGED <<instances_, hEnqueued, sessions_>>
    /\ mutex' = Unlock("sessionMutex_")
    /\ ReturnFrame(t, "XR_SUCCESS", 0)
    /\ UNCHANGED <<restVars, spaceVars, hReleased, hHandles, nextInstanceId_, nextSystemId_, nextSessionId_, swapVars, clock,
                   hPolled, hAcquired>>

\* Fault: the frame in progress is dropped with the device.
endSession_clearsFrame(t, session) ==
    /\ Enter(t, Call("endSession", session, 0, ""))
    /\ Free("sessionMutex_")
    /\ IF session \notin DOMAIN sessions_
       THEN /\ Return(t, Call("endSession", session, 0, ""), "XR_ERROR_HANDLE_INVALID", 0)
            /\ UNCHANGED <<sessions_, mutex>>
       ELSE IF sessions_[session].state = "IDLE" \/ sessions_[session].state = "STOPPING"
       THEN /\ Return(t, Call("endSession", session, 0, ""), "XR_ERROR_SESSION_NOT_RUNNING", 0)
            /\ UNCHANGED <<sessions_, mutex>>
       ELSE /\ sessions_' = [sessions_ EXCEPT ![session].kinectDevice = "null",
                                              ![session].state = "STOPPING",
                                              ![session].frameState.frameInProgress = FALSE]
            /\ mutex' = Lock(t, "sessionMutex_")
            /\ Goto(t, "endSession_queue", Call("endSession", session, 0, ""), 0)
    /\ UNCHANGED <<restVars, spaceVars, hReleased, hHandles, instVars, nextSessionId_, swapVars, clock, histVars>>

\* endSession, lines 397-417, under sessionMutex_, which is kept: the state check, the
\* device is stopped and released, and the step to STOPPING.
endSession(t, session) ==
    /\ Enter(t, Call("endSession", session, 0, ""))
    /\ Free("sessionMutex_")
    /\ IF session \notin DOMAIN sessions_
       THEN /\ Return(t, Call("endSession", session, 0, ""), "XR_ERROR_HANDLE_INVALID", 0)
            /\ UNCHANGED <<sessions_, mutex>>
       ELSE IF sessions_[session].state = "IDLE" \/ sessions_[session].state = "STOPPING"
       THEN /\ Return(t, Call("endSession", session, 0, ""), "XR_ERROR_SESSION_NOT_RUNNING", 0)
            /\ UNCHANGED <<sessions_, mutex>>
       ELSE /\ sessions_' = [sessions_ EXCEPT ![session].kinectDevice = "null",
                                              ![session].state = "STOPPING"]
            /\ mutex' = Lock(t, "sessionMutex_")
            /\ Goto(t, "endSession_queue", Call("endSession", session, 0, ""), 0)
    /\ UNCHANGED <<restVars, spaceVars, hReleased, hHandles, instVars, nextSessionId_, swapVars, clock, histVars>>

\* endSession, lines 418-428: under instanceMutex_ too, the two events and the step to
\* IDLE, if the instance is still there.
endSession_queue(t) ==
    /\ pc[t] = "endSession_queue"
    /\ Holds(t, "sessionMutex_")
    /\ Free("instanceMutex_")
    /\ LET s == frame[t].a
           i == sessions_[s].instance IN
       IF i \in DOMAIN instances_
       THEN /\ instances_' =
                queueSessionStateChanged(
                    queueSessionStateChanged(instances_, i, s, "STOPPING"), i, s, "IDLE")
            /\ hEnqueued' = LogEnqueued(LogEnqueued(hEnqueued, i, s, "STOPPING"), i, s, "IDLE")
            /\ sessions_' = [sessions_ EXCEPT ![s].state = "IDLE"]
       ELSE UNCHANGED <<instances_, hEnqueued, sessions_>>
    /\ mutex' = Unlock("sessionMutex_")
    /\ ReturnFrame(t, "XR_SUCCESS", 0)
    /\ UNCHANGED <<restVars, spaceVars, hReleased, hHandles, nextInstanceId_, nextSystemId_, nextSessionId_, swapVars, clock,
                   hPolled, hAcquired>>

\* --------------------------------------------------------- reference space
SupportedSpaces == {"VIEW", "LOCAL", "STAGE"}

NewSpaceData(sess, type) == [session |-> sess, referenceSpaceType |-> type]

\* createReferenceSpace, lines 500-519: isValidSession in its own critical section of
\* sessionMutex_, then the check of the reference space type.
createReferenceSpace(t, session, referenceSpaceType) ==
    /\ Enter(t, Call("createReferenceSpace", session, 0, referenceSpaceType))
    /\ Free("sessionMutex_")
    /\ LET call == Call("createReferenceSpace", session, 0, referenceSpaceType) IN
       IF session \notin DOMAIN sessions_
       THEN Return(t, call, "XR_ERROR_HANDLE_INVALID", 0)
       ELSE IF referenceSpaceType \notin SupportedSpaces
       THEN Return(t, call, "XR_ERROR_REFERENCE_SPACE_UNSUPPORTED", 0)
       ELSE Goto(t, "createReferenceSpace_insert", call, 0)
    /\ UNCHANGED <<restVars, spaceVars, hReleased, hHandles, instVars, sessVars, swapVars, mutex, clock, histVars>>

\* Fault: the lowest handle that is not live is handed out.
createReferenceSpace_insert_lowestFree(t) ==
    /\ pc[t] = "createReferenceSpace_insert"
    /\ Free("spaceMutex_")
    /\ LET handle == CHOOSE h \in 1..nextSpaceId_ :
                         /\ h \notin DOMAIN spaces_
                         /\ \A l \in 1..(h - 1) : l \in DOMAIN spaces_ IN
       /\ spaces_' = (handle :> NewSpaceData(frame[t].a, frame[t].e)) @@ spaces_
       /\ hHandles' = LogCreated("space", handle)
       /\ ReturnFrame(t, "XR_SUCCESS", handle)
    /\ nextSpaceId_' = nextSpaceId_ + 1
    /\ UNCHANGED <<restVars, hReleased, instVars, sessVars, swapVars, mutex, clock, histVars>>

\* createReferenceSpace, lines 521-529: under spaceMutex_ the handle is drawn from the
\* counter and the space is inserted.
createReferenceSpace_insert(t) ==
    /\ pc[t] = "createReferenceSpace_insert"
    /\ Free("spaceMutex_")
    /\ spaces_' = (nextSpaceId_ :> NewSpaceData(frame[t].a, frame[t].e)) @@ spaces_
    /\ nextSpaceId_' = nextSpaceId_ + 1
    /\ hHandles' = LogCreated("space", nextSpaceId_)
    /\ ReturnFrame(t, "XR_SUCCESS", nextSpaceId_)
    /\ UNCHANGED <<restVars, hReleased, instVars, sessVars, swapVars, mutex, clock, histVars>>

\* Fault: the space is reported destroyed and stays in the table.
destroySpace_keepEntry(t, space) ==
    /\ Enter(t, Call("destroySpace", space, 0, ""))
    /\ Free("spaceMutex_")
    /\ IF space \notin DOMAIN spaces_
       THEN /\ Return(t, Call("destroySpace", space, 0, ""), "XR_ERROR_HANDLE_INVALID", 0)
            /\ UNCHANGED hHandles
       ELSE /\ hHandles' = LogDestroyed("space", space)
            /\ Return(t, Call("destroySpace", space, 0, ""), "XR_SUCCESS", 0)
    /\ UNCHANGED <<restVars, spaces_, nextSpaceId_, hReleased, instVars, sessVars, swapVars, mutex,
                   clock, histVars>>

destroySpace(t, space) ==
    /\ Enter(t, Call("destroySpace", space, 0, ""))
    /\ Free("spaceMutex_")
    /\ IF space \notin DOMAIN spaces_
       THEN /\ Return(t, Call("destroySpace", space, 0, ""), "XR_ERROR_HANDLE_INVALID", 0)
            /\ UNCHANGED <<spaces_, hHandles>>
       ELSE /\ spaces_' = Erase(spaces_, space)
            /\ hHandles' = LogDestroyed("space", space)
            /\ Return(t, Call("destroySpace", space, 0, ""), "XR_SUCCESS", 0)
    /\ UNCHANGED <<restVars, nextSpaceId_, hReleased, instVars, sessVars, swapVars, mutex, clock, histVars>>

\* A locateViews call: the session, the space and the view configuration type of the
\* locate info; viewCapacityInput is 1 and the views array is there.
ViewsCall(session, viewConfigurationType, space) ==
    Call("locateViews", session, space, viewConfigurationType)

\* locateViews, lines 1092-1103, under sessionMutex_, which is kept: the session and
\* the view configuration type are checked.
locateViews(t, session, viewConfigurationType, space) ==
    /\ Enter(t, ViewsCall(session, viewConfigurationType, space))
    /\ Free("sessionMutex_")
    /\ LET call == ViewsCall(session, viewConfigurationType, space) IN
       IF session \notin DOMAIN sessions_
       THEN /\ Return(t, call, "XR_ERROR_HANDLE_INVALID", 0)
            /\ UNCHANGED mutex
       ELSE IF viewConfigurationType # sessions_[session].viewConfigurationType
       THEN /\ Return(t, call, "XR_ERROR_VIEW_CONFIGURATION_TYPE_UNSUPPORTED", 0)
            /\ UNCHANGED mutex
       ELSE /\ mutex' = Lock(t, "sessionMutex_")
            /\ Goto(t, "locateViews_space", call, 0)
    /\ UNCHANGED <<restVars, spaceVars, hReleased, hHandles, instVars, sessVars, swapVars, clock, histVars>>

\* locateViews, lines 1105-1156: isValidSpace takes spaceMutex_ under sessionMutex_;
\* the one view is written, the output is the view count.
locateViews_space(t) ==
    /\ pc[t] = "locateViews_space"
    /\ Holds(t, "sessionMutex_")
    /\ Free("spaceMutex_")
    /\ IF frame[t].n \notin DOMAIN spaces_
       THEN ReturnFrame(t, "XR_ERROR_HANDLE_INVALID", 0)
       ELSE ReturnFrame(t, "XR_SUCCESS", 1)
    /\ mutex' = Unlock("sessionMutex_")
    /\ UNCHANGED <<restVars, spaceVars, hReleased, hHandles, instVars, sessVars, swapVars, clock, histVars>>

\* --------------------------------------------------------------- swapchain
\* A createSwapchain call: the session, the format, the usage flags and the width; the
\* height is KinectHeight, sampleCount and arraySize are 1.
SwapchainCall(session, format, usage, width) ==
    [Call("createSwapchain", session, format, usage) EXCEPT !.x = width]

\* createSwapchain, lines 642-683: isValidSession in its own critical section of
\* sessionMutex_, then the checks of the create info.
createSwapchain(t, session, format, usage, width) ==
    /\ Enter(t, SwapchainCall(session, format, usage, width))
    /\ Free("sessionMutex_")
    /\ LET call == SwapchainCall(session, format, usage, width)
           hasColorUsage == usage \in {"COLOR", "COLOR_DEPTH"}
           hasDepthUsage == usage \in {"DEPTH", "COLOR_DEPTH"} IN
       IF session \notin DOMAIN sessions_
       THEN Return(t, call, "XR_ERROR_HANDLE_INVALID", 0)
       ELSE IF format # FormatBGRA8Unorm /\ format # FormatR16Uint
       THEN Return(t, call, "XR_ERROR_SWAPCHAIN_FORMAT_UNSUPPORTED", 0)
       ELSE IF width > KinectWidth
       THEN Return(t, call, "XR_ERROR_SIZE_INSUFFICIENT", 0)
       ELSE IF ~hasColorUsage /\ ~hasDepthUsage
       THEN Return(t, call, "XR_ERROR_FEATURE_UNSUPPORTED", 0)
       ELSE IF format = FormatR16Uint /\ ~hasDepthUsage
       THEN Return(t, call, "XR_ERROR_SWAPCHAIN_FORMAT_UNSUPPORTED", 0)
       ELSE IF format # FormatR16Uint /\ ~hasColorUsage
       THEN Return(t, call, "XR_ERROR_SWAPCHAIN_FORMAT_UNSUPPORTED", 0)
       ELSE Goto(t, "createSwapchain_id", call, 0)
    /\ UNCHANGED <<restVars, spaceVars, hReleased, hHandles, instVars, sessVars, swapVars, mutex, clock, histVars>>

\* createSwapchain, lines 686-690: swapchainMutex_ is taken and kept, the handle is
\* drawn from the counter.
createSwapchain_id(t) ==
    /\ pc[t] = "createSwapchain_id"
    /\ Free("swapchainMutex_")
    /\ mutex' = Lock(t, "swapchainMutex_")
    /\ nextSwapchainId_' = nextSwapchainId_ + 1
    /\ Goto(t, "createSwapchain_session", frame[t], nextSwapchainId_)
    /\ UNCHANGED <<restVars, spaceVars, hReleased, hHandles, instVars, sessVars, swapchains_, clock, histVars>>

\* createSwapchain, lines 693-697, with the pointer to the session data in view:
\* getSessionData looks the session up under sessionMutex_, which it releases, and
\* answers the pointer to its data, or null.
createSwapchain_getSessionData(t) ==
    /\ pc[t] = "createSwapchain_session"
    /\ Holds(t, "swapchainMutex_")
    /\ Free("sessionMutex_")
    /\ IF frame[t].a \notin DOMAIN sessions_
       THEN /\ ReturnFrame(t, "XR_ERROR_HANDLE_INVALID", 0)
            /\ mutex' = Unlock("swapchainMutex_")
       ELSE /\ Goto(t, "createSwapchain_textures", frame[t], frame[t].h)
            /\ UNCHANGED mutex
    /\ UNCHANGED <<restVars, spaceVars, instVars, sessVars, swapVars, clock, histVars,
                   hReleased, hHandles>>

\* createSwapchain, lines 699-717: metalDevice is read through the pointer, the
\* textures are created (createTexture may answer null) and the swapchain is inserted.
\* The read of the data of a session that is destroyed by now gives whatever is there.
createSwapchain_textures(t) ==
    /\ pc[t] = "createSwapchain_textures"
    /\ Holds(t, "swapchainMutex_")
    /\ \E textures \in BOOLEAN :
          swapchains_' =
             (frame[t].h :> [NewSwapchainData(frame[t].a, frame[t].x, KinectHeight,
                                              frame[t].n)
                             EXCEPT !.metalTextures = textures]) @@ swapchains_
    /\ hAcquired' = (frame[t].h :> <<>>) @@ hAcquired
    /\ hReleased' = (frame[t].h :> 0) @@ hReleased
    /\ hHandles' = LogCreated("swapchain", frame[t].h)
    /\ ReturnFrame(t, "XR_SUCCESS", frame[t].h)
    /\ mutex' = Unlock("swapchainMutex_")
    /\ UNCHANGED <<restVars, spaceVars, instVars, sessVars, nextSwapchainId_, clock,
                   hEnqueued, hPolled>>


\* createSwapchain, lines 693-717: getSessionData takes sessionMutex_ under
\* swapchainMutex_; the textures are created (createTexture may answer null) and the
\* swapchain is inserted.
createSwapchain_session(t) ==
    /\ pc[t] = "createSwapchain_session"
    /\ Holds(t, "swapchainMutex_")
    /\ Free("sessionMutex_")
    /\ IF frame[t].a \notin DOMAIN sessions_
       THEN /\ ReturnFrame(t, "XR_ERROR_HANDLE_INVALID", 0)
            /\ UNCHANGED <<swapchains_, hAcquired, hReleased, hHandles>>
       ELSE \E textures \in BOOLEAN :
            /\ swapchains_' =
                 (frame[t].h :> [NewSwapchainData(frame[t].a, frame[t].x, KinectHeight,
                                                  frame[t].n)
                                 EXCEPT !.metalTextures = textures]) @@ swapchains_
            /\ hAcquired' = (frame[t].h :> <<>>) @@ hAcquired
            /\ hReleased' = (frame[t].h :> 0) @@ hReleased
            /\ hHandles' = LogCreated("swapchain", frame[t].h)
            /\ ReturnFrame(t, "XR_SUCCESS", frame[t].h)
    /\ mutex' = Unlock("swapchainMutex_")
    /\ UNCHANGED <<restVars, spaceVars, instVars, sessVars, nextSwapchainId_, clock, hEnqueued, hPolled>>

destroySwapchain(t, swapchain) ==
    /\ Enter(t, Call("destroySwapchain", swapchain, 0, ""))
    /\ Free("swapchainMutex_")
    /\ IF swapchain \notin DOMAIN swapchains_
       THEN /\ Return(t, Call("destroySwapchain", swapchain, 0, ""),
                      "XR_ERROR_HANDLE_INVALID", 0)
            /\ UNCHANGED <<swapchains_, hAcquired, hReleased, hHandles>>
       ELSE /\ swapchains_' = Erase(swapchains_, swapchain)
            /\ hAcquired' = Erase(hAcquired, swapchain)
            /\ hReleased' = Erase(hReleased, swapchain)
            /\ hHandles' = LogDestroyed("swapchain", swapchain)
            /\ Return(t, Call("destroySwapchain", swapchain, 0, ""), "XR_SUCCESS", 0)
    /\ UNCHANGED <<restVars, spaceVars, instVars, sessVars, nextSwapchainId_, mutex, clock, hEnqueued, hPolled>>

\* Fault: the index is advanced before it is handed out.
acquireSwapchainImage_advanceFirst(t, swapchain) ==
    /\ Enter(t, Call("acquireSwapchainImage", swapchain, 0, ""))
    /\ Free("swapchainMutex_")
    /\ swapchain \in DOMAIN swapchains_
    /\ ~swapchains_[swapchain].imageAcquired
    /\ LET next == (swapchains_[swapchain].currentImageIndex + 1)
                       % swapchains_[swapchain].imageCount IN
       /\ swapchains_' = [swapchains_ EXCEPT ![swapchain].imageAcquired = TRUE,
                                             ![swapchain].currentImageIndex = next]
       /\ hAcquired' = [hAcquired EXCEPT ![swapchain] = Append(@, next)]
       /\ Return(t, Call("acquireSwapchainImage", swapchain, 0, ""), "XR_SUCCESS", next)
    /\ UNCHANGED <<restVars, spaceVars, hReleased, hHandles, instVars, sessVars, nextSwapchainId_, mutex, clock, hEnqueued, hPolled>>

acquireSwapchainImage(t, swapchain) ==
    /\ Enter(t, Call("acquireSwapchainImage", swapchain, 0, ""))
    /\ Free("swapchainMutex_")
    /\ LET call == Call("acquireSwapchainImage", swapchain, 0, "") IN
       IF swapchain \notin DOMAIN swapchains_
       THEN /\ Return(t, call, "XR_ERROR_HANDLE_INVALID", 0)
            /\ UNCHANGED <<swapchains_, hAcquired>>
       ELSE IF swapchains_[swapchain].imageAcquired
       THEN /\ Return(t, call, "XR_ERROR_CALL_ORDER_INVALID", 0)
            /\ UNCHANGED <<swapchains_, hAcquired>>
       ELSE /\ swapchains_' = [swapchains_ EXCEPT
                 ![swapchain].imageAcquired = TRUE,
                 ![swapchain].currentImageIndex =
                     (@ + 1) % swapchains_[swapchain].imageCount]
            /\ hAcquired' = [hAcquired EXCEPT ![swapchain] =
                                Append(@, swapchains_[swapchain].currentImageIndex)]
            /\ Return(t, call, "XR_SUCCESS", swapchains_[swapchain].currentImageIndex)
    /\ UNCHANGED <<restVars, spaceVars, hReleased, hHandles, instVars, sessVars, nextSwapchainId_, mutex, clock, hEnqueued, hPolled>>

\* waitSwapchainImage, lines 827-838, under swapchainMutex_, which is kept.
waitSwapchainImage(t, swapchain) ==
    /\ Enter(t, Call("waitSwapchainImage", swapchain, 0, ""))
    /\ Free("swapchainMutex_")
    /\ LET call == Call("waitSwapchainImage", swapchain, 0, "") IN
       IF swapchain \notin DOMAIN swapchains_
       THEN /\ Return(t, call, "XR_ERROR_HANDLE_INVALID", 0)
            /\ UNCHANGED mutex
       ELSE IF ~swapchains_[swapchain].imageAcquired
       THEN /\ Return(t, call, "XR_ERROR_CALL_ORDER_INVALID", 0)
            /\ UNCHANGED mutex
       ELSE /\ mutex' = Lock(t, "swapchainMutex_")
            /\ Goto(t, "waitSwapchainImage_upload", call, 0)
    /\ UNCHANGED <<restVars, spaceVars, hReleased, hHandles, instVars, sessVars, swapVars, clock, histVars>>

\* uploadRGBTexture / uploadDepthTexture: whether a texture is written.
uploads(sessionData, swapchainData) ==
    /\ swapchainData.imageAcquired
    /\ swapchainData.metalTextures
    /\ \/ swapchainData.format = FormatBGRA8Unorm /\ sessionData.frameCache.rgbValid
       \/ swapchainData.format = FormatR16Uint /\ sessionData.frameCache.depthValid

\* waitSwapchainImage, lines 842-858: getSessionData takes sessionMutex_ under
\* swapchainMutex_; the upload writes the texture at currentImageIndex.
waitSwapchainImage_upload(t) ==
    /\ pc[t] = "waitSwapchainImage_upload"
    /\ Holds(t, "swapchainMutex_")
    /\ Free("sessionMutex_")
    /\ LET c == frame[t].a
           data == swapchains_[c] IN
       IF data.session \in DOMAIN sessions_ /\ uploads(sessions_[data.session], data)
       THEN swapchains_' = [swapchains_ EXCEPT ![c].uploaded = data.currentImageIndex]
       ELSE UNCHANGED swapchains_
    /\ mutex' = Unlock("swapchainMutex_")
    /\ ReturnFrame(t, "XR_SUCCESS", 0)
    /\ UNCHANGED <<restVars, spaceVars, hReleased, hHandles, instVars, sessVars, nextSwapchainId_, clock, histVars>>

\* waitSwapchainImage, lines 842-843, with the pointer to the session data in view:
\* getSessionData looks the session of the swapchain up under sessionMutex_, which it
\* releases, and answers the pointer to its data, or null, and then nothing is
\* uploaded.
waitSwapchainImage_getSessionData(t) ==
    /\ pc[t] = "waitSwapchainImage_upload"
    /\ Holds(t, "swapchainMutex_")
    /\ Free("sessionMutex_")
    /\ IF swapchains_[frame[t].a].session \notin DOMAIN sessions_
       THEN /\ ReturnFrame(t, "XR_SUCCESS", 0)
            /\ mutex' = Unlock("swapchainMutex_")
       ELSE /\ Goto(t, "waitSwapchainImage_uploadTexture", frame[t], 0)
            /\ UNCHANGED mutex
    /\ UNCHANGED <<restVars, spaceVars, hReleased, hHandles, instVars, sessVars, swapVars,
                   clock, histVars>>

\* waitSwapchainImage, lines 844-858, uploadRGBTexture and uploadDepthTexture: the
\* frame cache is read through the pointer when the swapchain has textures, and the
\* texture at currentImageIndex is written when the cache has a frame.  The read of the
\* cache of a session that is destroyed by now gives whatever is there.
waitSwapchainImage_uploadTexture(t) ==
    /\ pc[t] = "waitSwapchainImage_uploadTexture"
    /\ Holds(t, "swapchainMutex_")
    /\ LET c == frame[t].a
           data == swapchains_[c] IN
       \E garbage \in BOOLEAN :
          IF IF data.session \in DOMAIN sessions_
             THEN uploads(sessions_[data.session], data)
             ELSE data.metalTextures /\ garbage
          THEN swapchains_' = [swapchains_ EXCEPT ![c].uploaded = data.currentImageIndex]
          ELSE UNCHANGED swapchains_
    /\ mutex' = Unlock("swapchainMutex_")
    /\ ReturnFrame(t, "XR_SUCCESS", 0)
    /\ UNCHANGED <<restVars, spaceVars, hReleased, hHandles, instVars, sessVars,
                   nextSwapchainId_, clock, histVars>>

\* Fault: an image is released whether one has been acquired or not.
releaseSwapchainImage_noAcquiredCheck(t, swapchain) ==
    /\ Enter(t, Call("releaseSwapchainImage", swapchain, 0, ""))
    /\ Free("swapchainMutex_")
    /\ LET call == Call("releaseSwapchainImage", swapchain, 0, "") IN
       IF swapchain \notin DOMAIN swapchains_
       THEN /\ Return(t, call, "XR_ERROR_HANDLE_INVALID", 0)
            /\ UNCHANGED <<swapchains_, hReleased>>
       ELSE /\ swapchains_' = [swapchains_ EXCEPT ![swapchain].imageAcquired = FALSE]
            /\ hReleased' = [hReleased EXCEPT ![swapchain] = @ + 1]
            /\ Return(t, call, "XR_SUCCESS", 0)
    /\ UNCHANGED <<restVars, spaceVars, hHandles, instVars, sessVars, nextSwapchainId_, mutex, clock,
                   histVars>>

releaseSwapchainImage(t, swapchain) ==
    /\ Enter(t, Call("releaseSwapchainImage", swapchain, 0, ""))
    /\ Free("swapchainMutex_")
    /\ LET call == Call("releaseSwapchainImage", swapchain, 0, "") IN
       IF swapchain \notin DOMAIN swapchains_
       THEN /\ Return(t, call, "XR_ERROR_HANDLE_INVALID", 0)
            /\ UNCHANGED <<swapchains_, hReleased>>
       ELSE IF ~swapchains_[swapchain].imageAcquired
       THEN /\ Return(t, call, "XR_ERROR_CALL_ORDER_INVALID", 0)
            /\ UNCHANGED <<swapchains_, hReleased>>
       ELSE /\ swapchains_' = [swapchains_ EXCEPT ![swapchain].imageAcquired = FALSE]
            /\ hReleased' = [hReleased EXCEPT ![swapchain] = @ + 1]
            /\ Return(t, call, "XR_SUCCESS", 0)
    /\ UNCHANGED <<restVars, spaceVars, hHandles, instVars, sessVars, nextSwapchainId_, mutex, clock, histVars>>

\* The depth and video callbacks of a streaming device, on its event thread: the frame
\* cache of the session is filled under its own mutex.
depthCallback(session) ==
    /\ session \in DOMAIN sessions_
    /\ sessions_[session].kinectDevice = "streaming"
    /\ ~sessions_[session].frameCache.depthValid
    /\ sessions_' = [sessions_ EXCEPT ![session].frameCache.depthValid = TRUE]
    /\ UNCHANGED <<restVars, spaceVars, hReleased, hHandles, instVars, nextSessionId_, swapVars, mutex, clock, pc, frame, ret,
                   histVars, hScript>>

videoCallback(session) ==
    /\ session \in DOMAIN sessions_
    /\ sessions_[session].kinectDevice = "streaming"
    /\ ~sessions_[session].frameCache.rgbValid
    /\ sessions_' = [sessions_ EXCEPT ![session].frameCache.rgbValid = TRUE]
    /\ UNCHANGED <<restVars, spaceVars, hReleased, hHandles, instVars, nextSessionId_, swapVars, mutex, clock, pc, frame, ret,
                   histVars, hScript>>

\* -------------------------------------------------------------- frame loop
\* Fault: the frame is waited for in whatever state the session is.
waitFrame_noRunningCheck(t, session) ==
    /\ Enter(t, Call("waitFrame", session, 0, ""))
    /\ Free("sessionMutex_")
    /\ LET call == Call("waitFrame", session, 0, "") IN
       IF session \notin DOMAIN sessions_
       THEN /\ Return(t, call, "XR_ERROR_HANDLE_INVALID", 0)
            /\ UNCHANGED <<sessions_, mutex>>
       ELSE LET lastFrameTime == sessions_[session].frameState.lastFrameTime IN
            IF lastFrameTime # 0 /\ clock - lastFrameTime < TargetFrameTime
            THEN /\ mutex' = Lock(t, "sessionMutex_")
                 /\ Goto(t, "waitFrame_sleep", call, lastFrameTime + TargetFrameTime)
                 /\ UNCHANGED sessions_
            ELSE /\ sessions_' = [sessions_ EXCEPT
                                     ![session].frameState.lastFrameTime = clock,
                                     ![session].frameState.frameCount = @ + 1]
                 /\ Return(t, call, "XR_SUCCESS", clock)
                 /\ UNCHANGED mutex
    /\ UNCHANGED <<restVars, spaceVars, hReleased, hHandles, instVars, nextSessionId_, swapVars, clock, histVars>>

\* waitFrame, lines 902-944 up to the sleep: under sessionMutex_, which is kept over
\* the sleep; h is the time the sleep ends.
waitFrame(t, session) ==
    /\ Enter(t, Call("waitFrame", session, 0, ""))
    /\ Free("sessionMutex_")
    /\ LET call == Call("waitFrame", session, 0, "") IN
       IF session \notin DOMAIN sessions_
       THEN /\ Return(t, call, "XR_ERROR_HANDLE_INVALID", 0)
            /\ UNCHANGED <<sessions_, mutex>>
       ELSE IF sessions_[session].state \notin {"SYNCHRONIZED", "VISIBLE", "FOCUSED"}
       THEN /\ Return(t, call, "XR_ERROR_SESSION_NOT_RUNNING", 0)
            /\ UNCHANGED <<sessions_, mutex>>
       ELSE LET lastFrameTime == sessions_[session].frameState.lastFrameTime IN
            IF lastFrameTime # 0 /\ clock - lastFrameTime < TargetFrameTime
            THEN /\ mutex' = Lock(t, "sessionMutex_")
                 /\ Goto(t, "waitFrame_sleep", call, lastFrameTime + TargetFrameTime)
                 /\ UNCHANGED sessions_
            ELSE /\ sessions_' = [sessions_ EXCEPT
                                     ![session].frameState.lastFrameTime = clock,
                                     ![session].frameState.frameCount = @ + 1]
                 /\ Return(t, call, "XR_SUCCESS", clock)
                 /\ UNCHANGED mutex
    /\ UNCHANGED <<restVars, spaceVars, hReleased, hHandles, instVars, nextSessionId_, swapVars, clock, histVars>>

\* waitFrame, lines 928-944: the sleep is over (sleep_for returns at the time asked
\* for or later), the frame state is updated with the time read then.
waitFrame_sleep(t) ==
    /\ pc[t] = "waitFrame_sleep"
    /\ Holds(t, "sessionMutex_")
    /\ clock >= frame[t].h
    /\ sessions_' = [sessions_ EXCEPT
                        ![frame[t].a].frameState.lastFrameTime = clock,
                        ![frame[t].a].frameState.frameCount = @ + 1]
    /\ mutex' = Unlock("sessionMutex_")
    /\ ReturnFrame(t, "XR_SUCCESS", clock)
    /\ UNCHANGED <<restVars, spaceVars, hReleased, hHandles, instVars, nextSessionId_, swapVars, clock, histVars>>

\* Fault: a frame is begun whether one is in progress or not.
beginFrame_noProgressCheck(t, session) ==
    /\ Enter(t, Call("beginFrame", session, 0, ""))
    /\ Free("sessionMutex_")
    /\ LET call == Call("beginFrame", session, 0, "") IN
       IF session \notin DOMAIN sessions_
       THEN /\ Return(t, call, "XR_ERROR_HANDLE_INVALID", 0)
            /\ UNCHANGED sessions_
       ELSE IF sessions_[session].state \notin {"SYNCHRONIZED", "VISIBLE", "FOCUSED"}
       THEN /\ Return(t, call, "XR_ERROR_SESSION_NOT_RUNNING", 0)
            /\ UNCHANGED sessions_
       ELSE /\ sessions_' = [sessions_ EXCEPT ![session].frameState.frameInProgress = TRUE]
            /\ Return(t, call, "XR_SUCCESS", 0)
    /\ UNCHANGED <<restVars, spaceVars, hReleased, hHandles, instVars, nextSessionId_, swapVars, mutex, clock, histVars>>

beginFrame(t, session) ==
    /\ Enter(t, Call("beginFrame", session, 0, ""))
    /\ Free("sessionMutex_")
    /\ LET call == Call("beginFrame", session, 0, "") IN
       IF session \notin DOMAIN sessions_
       THEN /\ Return(t, call, "XR_ERROR_HANDLE_INVALID", 0)
            /\ UNCHANGED sessions_
       ELSE IF sessions_[session].state \notin {"SYNCHRONIZED", "VISIBLE", "FOCUSED"}
       THEN /\ Return(t, call, "XR_ERROR_SESSION_NOT_RUNNING", 0)
            /\ UNCHANGED sessions_
       ELSE IF sessions_[session].frameState.frameInProgress
       THEN /\ Return(t, call, "XR_ERROR_CALL_ORDER_INVALID", 0)
            /\ UNCHANGED sessions_
       ELSE /\ sessions_' = [sessions_ EXCEPT ![session].frameState.frameInProgress = TRUE]
            /\ Return(t, call, "XR_SUCCESS", 0)
    /\ UNCHANGED <<restVars, spaceVars, hReleased, hHandles, instVars, nextSessionId_, swapVars, mutex, clock, histVars>>

\* An endFrame call: the session, the environment blend mode, and the layers: "NO_LAYERS",
\* "NULL_LAYERS" (layerCount > 0 and no array), "PROJECTION" or "PROJECTION_DEPTH", a
\* projection layer whose next chain has the depth info of swapchain depthSwapchain.
BlendModes == {"OPAQUE", "ADDITIVE"}

LayerKinds == {"NO_LAYERS", "NULL_LAYERS", "PROJECTION", "PROJECTION_DEPTH"}

FrameEndCall(session, blendMode, layers, depthSwapchain) ==
    [Call("endFrame", session, depthSwapchain, layers) EXCEPT !.f = blendMode]

\* Fault: the frame is marked complete before the blend mode is checked.
endFrame_clearFirst(t, session, blendMode, layers, depthSwapchain) ==
    /\ Enter(t, FrameEndCall(session, blendMode, layers, depthSwapchain))
    /\ Free("sessionMutex_")
    /\ LET call == FrameEndCall(session, blendMode, layers, depthSwapchain) IN
       IF session \notin DOMAIN sessions_
       THEN /\ Return(t, call, "XR_ERROR_HANDLE_INVALID", 0)
            /\ UNCHANGED <<sessions_, mutex>>
       ELSE IF sessions_[session].state \notin {"SYNCHRONIZED", "VISIBLE", "FOCUSED"}
       THEN /\ Return(t, call, "XR_ERROR_SESSION_NOT_RUNNING", 0)
            /\ UNCHANGED <<sessions_, mutex>>
       ELSE IF ~sessions_[session].frameState.frameInProgress
       THEN /\ Return(t, call, "XR_ERROR_CALL_ORDER_INVALID", 0)
            /\ UNCHANGED <<sessions_, mutex>>
       ELSE IF blendMode # "OPAQUE"
       THEN /\ Return(t, call, "XR_ERROR_ENVIRONMENT_BLEND_MODE_UNSUPPORTED", 0)
            /\ sessions_' = [sessions_ EXCEPT ![session].frameState.frameInProgress = FALSE]
            /\ UNCHANGED mutex
       ELSE IF layers = "NULL_LAYERS"
       THEN /\ Return(t, call, "XR_ERROR_VALIDATION_FAILURE", 0)
            /\ UNCHANGED <<sessions_, mutex>>
       ELSE IF layers = "PROJECTION_DEPTH"
       THEN /\ mutex' = Lock(t, "sessionMutex_")
            /\ Goto(t, "endFrame_depth", call, 0)
            /\ UNCHANGED sessions_
       ELSE /\ sessions_' = [sessions_ EXCEPT ![session].frameState.frameInProgress = FALSE]
            /\ Return(t, call, "XR_SUCCESS", 0)
            /\ UNCHANGED mutex
    /\ UNCHANGED <<restVars, spaceVars, hReleased, hHandles, instVars, nextSessionId_, swapVars, clock, histVars>>

\* endFrame, lines 991-1046, under sessionMutex_, which is kept when the layers carry
\* a depth info.
endFrame(t, session, blendMode, layers, depthSwapchain) ==
    /\ Enter(t, FrameEndCall(session, blendMode, layers, depthSwapchain))
    /\ Free("sessionMutex_")
    /\ LET call == FrameEndCall(session, blendMode, layers, depthSwapchain) IN
       IF session \notin DOMAIN sessions_
       THEN /\ Return(t, call, "XR_ERROR_HANDLE_INVALID", 0)
            /\ UNCHANGED <<sessions_, mutex>>
       ELSE IF sessions_[session].state \notin {"SYNCHRONIZED", "VISIBLE", "FOCUSED"}
       THEN /\ Return(t, call, "XR_ERROR_SESSION_NOT_RUNNING", 0)
            /\ UNCHANGED <<sessions_, mutex>>
       ELSE IF ~sessions_[session].frameState.frameInProgress
       THEN /\ Return(t, call, "XR_ERROR_CALL_ORDER_INVALID", 0)
            /\ UNCHANGED <<sessions_, mutex>>
       ELSE IF blendMode # "OPAQUE"
       THEN /\ Return(t, call, "XR_ERROR_ENVIRONMENT_BLEND_MODE_UNSUPPORTED", 0)
            /\ UNCHANGED <<sessions_, mutex>>
       ELSE IF layers = "NULL_LAYERS"
       THEN /\ Return(t, call, "XR_ERROR_VALIDATION_FAILURE", 0)
            /\ UNCHANGED <<sessions_, mutex>>
       ELSE IF layers = "PROJECTION_DEPTH"
       THEN /\ mutex' = Lock(t, "sessionMutex_")
            /\ Goto(t, "endFrame_depth", call, 0)
            /\ UNCHANGED sessions_
       ELSE /\ sessions_' = [sessions_ EXCEPT ![session].frameState.frameInProgress = FALSE]
            /\ Return(t, call, "XR_SUCCESS", 0)
            /\ UNCHANGED mutex
    /\ UNCHANGED <<restVars, spaceVars, hReleased, hHandles, instVars, nextSessionId_, swapVars, clock, histVars>>

\* endFrame, lines 1047-1076: getSwapchainData takes swapchainMutex_ under
\* sessionMutex_; the depth swapchain is checked and the frame is complete.
endFrame_depth(t) ==
    /\ pc[t] = "endFrame_depth"
    /\ Holds(t, "sessionMutex_")
    /\ Free("swapchainMutex_")
    /\ LET c == frame[t].n IN
       IF c \notin DOMAIN swapchains_
       THEN /\ ReturnFrame(t, "XR_ERROR_HANDLE_INVALID", 0)
            /\ UNCHANGED sessions_
       ELSE IF swapchains_[c].format # FormatR16Uint
       THEN /\ ReturnFrame(t, "XR_ERROR_SWAPCHAIN_FORMAT_UNSUPPORTED", 0)
            /\ UNCHANGED sessions_
       ELSE IF swapchains_[c].width # KinectWidth \/ swapchains_[c].height # KinectHeight
       THEN /\ ReturnFrame(t, "XR_ERROR_VALIDATION_FAILURE", 0)
            /\ UNCHANGED sessions_
       ELSE /\ sessions_' = [sessions_ EXCEPT
                                ![frame[t].a].frameState.frameInProgress = FALSE]
            /\ ReturnFrame(t, "XR_SUCCESS", 0)
    /\ mutex' = Unlock("sessionMutex_")
    /\ UNCHANGED <<restVars, spaceVars, hReleased, hHandles, instVars, nextSessionId_, swapVars, clock, histVars>>

\* ----------------------------------------------------------- time and waiting
\* Time passes, by a third of a frame period or by a whole one; the clock stops at
\* MaxClock unless a thread is asleep in waitFrame.
Tick ==
    /\ \E d \in {TargetFrameTime \div 3, TargetFrameTime} :
          /\ \/ clock + d <= MaxClock
             \/ \E t \in Threads : pc[t] = "waitFrame_sleep" /\ clock < frame[t].h
          /\ clock' = clock + d
    /\ UNCHANGED <<restVars, spaceVars, hReleased, hHandles, instVars, sessVars, swapVars, mutex, pc, frame, ret, histVars, hScript>>

\* The mutex a call takes first.
FirstMutex(op) ==
    CASE op \in {"createInstance", "destroyInstance", "getSystem", "pollEvent",
                 "createSession"} -> "instanceMutex_"
      [] op \in {"destroySession", "beginSession", "endSession", "createSwapchain",
                 "waitFrame", "beginFrame", "endFrame", "createReferenceSpace",
                 "locateViews"} -> "sessionMutex_"
      [] op = "destroySpace" -> "spaceMutex_"
      [] op \in {"destroySwapchain", "acquireSwapchainImage", "waitSwapchainImage",
                 "releaseSwapchainImage"} -> "swapchainMutex_"

\* Thread t makes the call and finds its first mutex taken: it waits at the lock.
Block(t, call) ==
    /\ pc[t] = "idle"
    /\ ~Free(FirstMutex(call.op))
    /\ pc' = [pc EXCEPT ![t] = "blocked"]
    /\ frame' = [frame EXCEPT ![t] = call]
    /\ UNCHANGED <<restVars, spaceVars, hReleased, hHandles, instVars, sessVars, swapVars, mutex, clock, ret, histVars, hScript>>

\* The mutex thread t is waiting for where it stands, "none" if it waits for none.
Wants(t) ==
    CASE pc[t] = "blocked" -> FirstMutex(frame[t].op)
      [] pc[t] \in {"createSession_limit", "createSession_insert",
                    "createSwapchain_session", "waitSwapchainImage_upload"}
            -> "sessionMutex_"
      [] pc[t] \in {"createSession_queue", "beginSession_queue", "endSession_queue"}
            -> "instanceMutex_"
      [] pc[t] \in {"createSwapchain_id", "endFrame_depth"} -> "swapchainMutex_"
      [] pc[t] \in {"createReferenceSpace_insert", "locateViews_space"} -> "spaceMutex_"
      [] OTHER -> "none"

\* ------------------------------------------------------------- enumeration
\* What a caller hands to an enumeration function for its count pointer and its
\* array: "noCount" is a null count pointer; "nullptr" a null array; "array" an array
\* of MaxCapacity elements, each with its structure type set where the element has
\* one; "halfTyped" the same with the type set in the first element only; "untyped"
\* with the type set in none.
OutArgs == {"noCount", "nullptr", "array", "halfTyped", "untyped"}

\* The caller's array before the call, every element blank.
Array(out, blank) ==
    IF out \in {"noCount", "nullptr"} THEN <<>> ELSE [j \in 1..MaxCapacity |-> blank]

\* The two-call idiom as the enumeration functions have it: capacity 0 writes the
\* count; a capacity below the count writes the count and is insufficient; a null
\* array is a validation failure; else the elements are written one by one, the type
\* of the first `checked` elements of the caller's array being checked before the
\* element is written, and the count is written at the end.
TwoCallIdiom(t, call, capacityInput, out, elements, blank, checked) ==
    LET count == Len(elements)
        typed == CASE out = "array" -> MaxCapacity
                   [] out = "halfTyped" -> 1
                   [] OTHER -> 0
        Written(n) == [j \in 1..MaxCapacity |-> IF j <= n THEN elements[j] ELSE blank] IN
    IF capacityInput = 0
    THEN /\ Return(t, call, "XR_SUCCESS", count)
         /\ buffer' = [buffer EXCEPT ![t] = Array(out, blank)]
    ELSE IF capacityInput < count
    THEN /\ Return(t, call, "XR_ERROR_SIZE_INSUFFICIENT", count)
         /\ buffer' = [buffer EXCEPT ![t] = Array(out, blank)]
    ELSE IF out = "nullptr"
    THEN /\ Return(t, call, "XR_ERROR_VALIDATION_FAILURE", 0)
         /\ buffer' = [buffer EXCEPT ![t] = Array(out, blank)]
    ELSE IF typed < checked
    THEN /\ Return(t, call, "XR_ERROR_VALIDATION_FAILURE", 0)
         /\ buffer' = [buffer EXCEPT ![t] = Written(typed)]
    ELSE /\ Return(t, call, "XR_SUCCESS", count)
         /\ buffer' = [buffer EXCEPT ![t] = Written(count)]

\* The call returns res before the array is looked at.
Reject(t, call, out, blank, res) ==
    /\ Return(t, call, res, 0)
    /\ buffer' = [buffer EXCEPT ![t] = Array(out, blank)]

supportedExtensions == <<"XR_KHR_composition_layer_depth", "XR_KHR_metal_enable">>

xrEnumerateInstanceExtensionProperties(t, layerName, propertyCapacityInput, properties) ==
    /\ pc[t] = "idle"
    /\ LET call == [Call("xrEnumerateInstanceExtensionProperties", 0, 0, properties)
                    EXCEPT !.x = propertyCapacityInput, !.f = layerName] IN
       IF properties = "noCount"
       THEN Reject(t, call, properties, "", "XR_ERROR_VALIDATION_FAILURE")
       ELSE IF layerName # "nullptr"
       THEN Reject(t, call, properties, "", "XR_ERROR_API_LAYER_NOT_PRESENT")
       ELSE TwoCallIdiom(t, call, propertyCapacityInput, properties,
                         supportedExtensions, "", Len(supportedExtensions))
    /\ UNCHANGED tableVars

\* No API layer: the count is 0 whatever the capacity, the array is not looked at.
xrEnumerateApiLayerProperties(t, propertyCapacityInput, properties) ==
    /\ pc[t] = "idle"
    /\ LET call == [Call("xrEnumerateApiLayerProperties", 0, 0, properties)
                    EXCEPT !.x = propertyCapacityInput] IN
       IF properties = "noCount"
       THEN Reject(t, call, properties, "", "XR_ERROR_VALIDATION_FAILURE")
       ELSE Reject(t, call, properties, "", "XR_SUCCESS")
    /\ UNCHANGED tableVars

\* The one view of PRIMARY_MONO as xrEnumerateViewConfigurationViews writes it, and
\* the caller's structure before it is written.
KinectView ==
    [recommendedImageRectWidth |-> KinectWidth, maxImageRectWidth |-> KinectWidth,
     recommendedImageRectHeight |-> KinectHeight, maxImageRectHeight |-> KinectHeight,
     recommendedSwapchainSampleCount |-> 1, maxSwapchainSampleCount |-> 1]

NoView ==
    [recommendedImageRectWidth |-> 0, maxImageRectWidth |-> 0,
     recommendedImageRectHeight |-> 0, maxImageRectHeight |-> 0,
     recommendedSwapchainSampleCount |-> 0, maxSwapchainSampleCount |-> 0]

\* xrEnumerateViewConfigurations up to isValidInstance, a critical section of
\* instanceMutex_.
xrEnumerateViewConfigurations(t, instance, systemId, viewConfigurationTypeCapacityInput, viewConfigurationTypes) ==
    /\ Enter(t, [Call("xrEnumerateViewConfigurations", instance, systemId,
                      viewConfigurationTypes)
                 EXCEPT !.x = viewConfigurationTypeCapacityInput])
    /\ LET call == [Call("xrEnumerateViewConfigurations", instance, systemId,
                         viewConfigurationTypes)
                    EXCEPT !.x = viewConfigurationTypeCapacityInput] IN
       IF viewConfigurationTypes = "noCount"
       THEN Reject(t, call, viewConfigurationTypes, "", "XR_ERROR_VALIDATION_FAILURE")
       ELSE /\ Free("instanceMutex_")
            /\ IF instance \notin DOMAIN instances_
               THEN Reject(t, call, viewConfigurationTypes, "", "XR_ERROR_HANDLE_INVALID")
               ELSE /\ Goto(t, "isValidSystem", call, 0)
                    /\ buffer' = [buffer EXCEPT ![t] = Array(viewConfigurationTypes, "")]
    /\ UNCHANGED tableVars

\* xrEnumerateViewConfigurationViews up to isValidInstance.
xrEnumerateViewConfigurationViews(t, instance, systemId, viewConfigurationType, viewCapacityInput, views) ==
    /\ Enter(t, [Call("xrEnumerateViewConfigurationViews", instance, systemId, views)
                 EXCEPT !.x = viewCapacityInput, !.f = viewConfigurationType])
    /\ LET call == [Call("xrEnumerateViewConfigurationViews", instance, systemId, views)
                    EXCEPT !.x = viewCapacityInput, !.f = viewConfigurationType] IN
       IF views = "noCount"
       THEN Reject(t, call, views, NoView, "XR_ERROR_VALIDATION_FAILURE")
       ELSE /\ Free("instanceMutex_")
            /\ IF instance \notin DOMAIN instances_
               THEN Reject(t, call, views, NoView, "XR_ERROR_HANDLE_INVALID")
               ELSE /\ Goto(t, "isValidSystem", call, 0)
                    /\ buffer' = [buffer EXCEPT ![t] = Array(views, NoView)]
    /\ UNCHANGED tableVars

\* The rest of the two view configuration enumerations, from isValidSystem (lines
\* 183-192), a second critical section of instanceMutex_, on.
isValidSystem(t) ==
    /\ pc[t] = "isValidSystem"
    /\ Free("instanceMutex_")
    /\ LET call == frame[t]
           valid == IF call.a \in DOMAIN instances_
                    THEN instances_[call.a].system # 0
                         /\ instances_[call.a].system = call.n
                    ELSE FALSE IN
       IF call.op = "xrEnumerateViewConfigurations"
       THEN IF ~valid
            THEN Reject(t, call, call.e, "", "XR_ERROR_SYSTEM_INVALID")
            ELSE TwoCallIdiom(t, call, call.x, call.e, <<"PRIMARY_MONO">>, "", 0)
       ELSE IF ~valid
            THEN Reject(t, call, call.e, NoView, "XR_ERROR_SYSTEM_INVALID")
            ELSE IF call.f # "PRIMARY_MONO"
            THEN Reject(t, call, call.e, NoView,
                        "XR_ERROR_VIEW_CONFIGURATION_TYPE_UNSUPPORTED")
            ELSE TwoCallIdiom(t, call, call.x, call.e, <<KinectView>>, NoView, 1)
    /\ UNCHANGED tableVars

supportedSpaces == <<"VIEW", "LOCAL", "STAGE">>

\* enumerateReferenceSpaces: isValidSession is a critical section of sessionMutex_.
enumerateReferenceSpaces(t, session, spaceCapacityInput, spaces) ==
    /\ Enter(t, [Call("enumerateReferenceSpaces", session, 0, spaces)
                 EXCEPT !.x = spaceCapacityInput])
    /\ LET call == [Call("enumerateReferenceSpaces", session, 0, spaces)
                    EXCEPT !.x = spaceCapacityInput] IN
       IF spaces = "noCount"
       THEN Reject(t, call, spaces, "", "XR_ERROR_VALIDATION_FAILURE")
       ELSE /\ Free("sessionMutex_")
            /\ IF session \notin DOMAIN sessions_
               THEN Reject(t, call, spaces, "", "XR_ERROR_HANDLE_INVALID")
               ELSE TwoCallIdiom(t, call, spaceCapacityInput, spaces, supportedSpaces,
                                 "", 0)
    /\ UNCHANGED tableVars

supportedFormats == <<FormatBGRA8Unorm, FormatR16Uint>>

\* Fault: as many elements are written as the capacity says.
enumerateSwapchainFormats_fillCapacity(t, session, formatCapacityInput, formats) ==
    /\ Enter(t, [Call("enumerateSwapchainFormats", session, 0, formats)
                 EXCEPT !.x = formatCapacityInput])
    /\ LET call == [Call("enumerateSwapchainFormats", session, 0, formats)
                    EXCEPT !.x = formatCapacityInput] IN
       IF formats = "noCount"
       THEN Reject(t, call, formats, 0, "XR_ERROR_VALIDATION_FAILURE")
       ELSE /\ Free("sessionMutex_")
            /\ IF session \notin DOMAIN sessions_
               THEN Reject(t, call, formats, 0, "XR_ERROR_HANDLE_INVALID")
               ELSE TwoCallIdiom(t, call, formatCapacityInput, formats,
                                 [j \in 1..(IF formatCapacityInput < 2 THEN 2
                                            ELSE formatCapacityInput)
                                  |-> supportedFormats[2 - (j % 2)]], 0, 0)
    /\ UNCHANGED tableVars

\* enumerateSwapchainFormats: isValidSession is a critical section of sessionMutex_;
\* a format the caller's array does not hold yet is 0.
enumerateSwapchainFormats(t, session, formatCapacityInput, formats) ==
    /\ Enter(t, [Call("enumerateSwapchainFormats", session, 0, formats)
                 EXCEPT !.x = formatCapacityInput])
    /\ LET call == [Call("enumerateSwapchainFormats", session, 0, formats)
                    EXCEPT !.x = formatCapacityInput] IN
       IF formats = "noCount"
       THEN Reject(t, call, formats, 0, "XR_ERROR_VALIDATION_FAILURE")
       ELSE /\ Free("sessionMutex_")
            /\ IF session \notin DOMAIN sessions_
               THEN Reject(t, call, formats, 0, "XR_ERROR_HANDLE_INVALID")
               ELSE TwoCallIdiom(t, call, formatCapacityInput, formats,
                                 supportedFormats, 0, 0)
    /\ UNCHANGED tableVars

\* enumerateSwapchainImages, all of it under swapchainMutex_; the type of the first
\* structure is checked.  The texture handles are written in the order of the images:
\* the j-th texture is j, a null texture is 0; -1 is the texture of a structure
\* nothing has written.
enumerateSwapchainImages(t, swapchain, imageCapacityInput, images) ==
    /\ Enter(t, [Call("enumerateSwapchainImages", swapchain, 0, images)
                 EXCEPT !.x = imageCapacityInput])
    /\ LET call == [Call("enumerateSwapchainImages", swapchain, 0, images)
                    EXCEPT !.x = imageCapacityInput] IN
       IF images = "noCount"
       THEN Reject(t, call, images, -1, "XR_ERROR_VALIDATION_FAILURE")
       ELSE /\ Free("swapchainMutex_")
            /\ IF swapchain \notin DOMAIN swapchains_
               THEN Reject(t, call, images, -1, "XR_ERROR_HANDLE_INVALID")
               ELSE TwoCallIdiom(t, call, imageCapacityInput, images,
                                 [j \in 1..swapchains_[swapchain].imageCount
                                  |-> IF swapchains_[swapchain].metalTextures
                                      THEN j ELSE 0], -1, 1)
    /\ UNCHANGED tableVars

\* ------------------------------------------------------------ frame caches
\* The two streams of the Kinect and their stream types on the wire.
Streams == {"rgb", "depth"}

StreamType(stream) == IF stream = "rgb" THEN STREAM_TYPE_RGB ELSE STREAM_TYPE_DEPTH

\* A frame cache as its constructor leaves it.  A buffer is two words, copied one after
\* the other; the frame a callback delivers has its timestamp in both words.  frameId
\* is the bridge's (BridgeFrameCache); the cache of a session has none and keeps 0.
BridgeFrameCache ==
    [rgb |-> [data |-> <<0, 0>>, timestamp |-> 0, valid |-> FALSE],
     depth |-> [data |-> <<0, 0>>, timestamp |-> 0, valid |-> FALSE],
     frameId |-> 0]

\* ------------------------------------------------------------------ device
\* KinectDevice as its constructor leaves it.  cache names the frame cache the
\* registered depth and video callbacks write ("": none registered); eventThread_ is
\* the number of event threads started and not joined.
KinectDevice ==
    [initialized_ |-> FALSE, streaming_ |-> FALSE, eventThreadRunning_ |-> FALSE,
     eventThread_ |-> 0, cache |-> ""]

NoPump == [pc |-> "none", stream |-> "", timestamp |-> 0]

MotorFunctions == {"setTiltAngle", "getTiltAngle", "setLED", "getMotorStatus"}

\* Thread t, in the call `call`, enters the device function fn; it goes on at label
\* after when fn returns.
CallDevice(t, call, fn, after) ==
    /\ pc' = [pc EXCEPT ![t] = fn]
    /\ frame' = [frame EXCEPT ![t] = [call EXCEPT !.f = after]]

\* The device function fn of thread t returns error.
DeviceReturn(t, fn, error) ==
    /\ pc' = [pc EXCEPT ![t] = frame[t].f]
    /\ frame' = [frame EXCEPT ![t] = IF frame[t].f = "idle" THEN NoFrame ELSE frame[t]]
    /\ ret' = [ret EXCEPT ![t] = [NoReturn EXCEPT !.op = fn, !.res = error]]

\* A thread calls a function of the device directly.
deviceCall(t, fn) ==
    /\ pc[t] = "idle"
    /\ CallDevice(t, Call(fn, 0, 0, ""), fn, "idle")
    /\ UNCHANGED <<xrVars, hScript, buffer, mutex, clock, ret, frameCache,
                 pump, device, server, clients_, broadcaster, conn, hSent, hDriver>>

\* initialize: error is what the search for the device and its opening come to.
initialize(t, error) ==
    /\ pc[t] = "initialize"
    /\ IF device.initialized_
       THEN DeviceReturn(t, "initialize", "None") /\ UNCHANGED device
       ELSE /\ DeviceReturn(t, "initialize", error)
            /\ device' = [device EXCEPT !.initialized_ = (error = "None")]
    /\ UNCHANGED <<xrVars, hScript, buffer, mutex, clock, frameCache,
                 pump, server, clients_, broadcaster, conn, hSent, hDriver>>

\* setDepthCallback and setVideoCallback with callbacks that write the frame cache
\* of a session, as beginSession registers them before it starts the streams.
setDepthCallback ==
    /\ device.initialized_ /\ ~device.streaming_ /\ device.cache = ""
    /\ server.kinectDevice_ = "nullptr"
    /\ device' = [device EXCEPT !.cache = "frameCache"]
    /\ UNCHANGED <<xrVars, hScript, buffer, mutex, clock, pc, frame, ret,
                 frameCache, pump, server, clients_, broadcaster, conn, hSent, hDriver>>

\* Fault: streaming_ is set before the streams are configured and started.
startStreams_flagFirst(t, failure) ==
    /\ pc[t] = "startStreams"
    /\ IF ~device.initialized_
       THEN DeviceReturn(t, "startStreams", "NotInitialized") /\ UNCHANGED device
       ELSE IF device.streaming_
       THEN DeviceReturn(t, "startStreams", "AlreadyStreaming") /\ UNCHANGED device
       ELSE IF failure # "none"
       THEN /\ DeviceReturn(t, "startStreams", "InitializationFailed")
            /\ device' = [device EXCEPT !.streaming_ = TRUE]
       ELSE /\ pc' = [pc EXCEPT ![t] = "startStreams_thread"]
            /\ UNCHANGED <<frame, ret, device>>
    /\ UNCHANGED <<xrVars, hScript, buffer, mutex, clock, frameCache,
                 pump, server, clients_, broadcaster, conn, hSent, hDriver>>

\* startStreams, lines 132-186: the two checks, then the configuration and the start
\* of the depth and video streams; failure names the native call that fails.
startStreams(t, failure) ==
    /\ pc[t] = "startStreams"
    /\ IF ~device.initialized_
       THEN DeviceReturn(t, "startStreams", "NotInitialized")
       ELSE IF device.streaming_
       THEN DeviceReturn(t, "startStreams", "AlreadyStreaming")
       ELSE IF failure # "none"
       THEN DeviceReturn(t, "startStreams", "InitializationFailed")
       ELSE /\ pc' = [pc EXCEPT ![t] = "startStreams_thread"]
            /\ UNCHANGED <<frame, ret>>
    /\ UNCHANGED <<xrVars, hScript, buffer, mutex, clock, frameCache, pump,
                 device, server, clients_, broadcaster, conn, hSent, hDriver>>

\* startStreams, lines 188-194: the flags are set and the event thread is started.
startStreams_thread(t) ==
    /\ pc[t] = "startStreams_thread"
    /\ device' = [device EXCEPT !.streaming_ = TRUE, !.eventThreadRunning_ = TRUE,
                                !.eventThread_ = @ + 1]
    /\ pump' = [NoPump EXCEPT !.pc = "loop"]
    /\ DeviceReturn(t, "startStreams", "None")
    /\ UNCHANGED <<xrVars, hScript, buffer, mutex, clock, frameCache,
                 server, clients_, broadcaster, conn, hSent, hDriver>>

\* stopStreams, lines 243-254: the two checks; the event thread is told to stop.
stopStreams(t) ==
    /\ pc[t] = "stopStreams"
    /\ IF ~device.initialized_
       THEN DeviceReturn(t, "stopStreams", "NotInitialized") /\ UNCHANGED device
       ELSE IF ~device.streaming_
       THEN DeviceReturn(t, "stopStreams", "NotStreaming") /\ UNCHANGED device
       ELSE /\ device' = [device EXCEPT !.eventThreadRunning_ = FALSE]
            /\ pc' = [pc EXCEPT ![t] = "stopStreams_join"]
            /\ UNCHANGED <<frame, ret>>
    /\ UNCHANGED <<xrVars, hScript, buffer, mutex, clock, frameCache,
                 pump, server, clients_, broadcaster, conn, hSent, hDriver>>

\* Fault: the event thread is left to itself instead of joined.
stopStreams_join_detached(t) ==
    /\ pc[t] = "stopStreams_join"
    /\ device' = [device EXCEPT !.streaming_ = FALSE, !.eventThread_ = 0]
    /\ DeviceReturn(t, "stopStreams", "None")
    /\ UNCHANGED <<xrVars, hScript, buffer, mutex, clock, frameCache,
                 pump, server, clients_, broadcaster, conn, hSent, hDriver>>

\* stopStreams, lines 255-268: the join returns once the event thread has left its
\* loop; the streams are stopped and streaming_ is cleared.
stopStreams_join(t) ==
    /\ pc[t] = "stopStreams_join"
    /\ pump.pc \in {"none", "exited"}
    /\ pump' = NoPump
    /\ device' = [device EXCEPT !.streaming_ = FALSE, !.eventThread_ = 0]
    /\ DeviceReturn(t, "stopStreams", "None")
    /\ UNCHANGED <<xrVars, hScript, buffer, mutex, clock, frameCache,
                 server, clients_, broadcaster, conn, hSent, hDriver>>

\* endSession of the running session whose callbacks the device has, lines 410-412:
\* stopStreams is called on the device of the session.
endSession_stopStreams(t) ==
    /\ pc[t] = "idle"
    /\ device.cache = "frameCache" /\ device.streaming_
    /\ CallDevice(t, Call("endSession", 1, 0, ""), "stopStreams", "endSession_reset")
    /\ UNCHANGED <<xrVars, hScript, buffer, mutex, clock, ret, frameCache,
                 pump, device, server, clients_, broadcaster, conn, hSent, hDriver>>

\* endSession, lines 413-428, and the destructor of the device, lines 43-64: the
\* device is closed and destroyed with its callbacks, and endSession returns.
endSession_reset(t) ==
    /\ pc[t] = "endSession_reset"
    /\ device' = KinectDevice
    /\ pc' = [pc EXCEPT ![t] = "idle"]
    /\ frame' = [frame EXCEPT ![t] = NoFrame]
    /\ ret' = [ret EXCEPT ![t] = [NoReturn EXCEPT !.op = "endSession", !.a = 1,
                                                  !.res = "XR_SUCCESS"]]
    /\ UNCHANGED <<xrVars, hScript, buffer, mutex, clock, frameCache,
                 pump, server, clients_, broadcaster, conn, hSent, hDriver>>

\* setTiltAngle, getTiltAngle, setLED and getMotorStatus: the thread stands at the
\* function's name while it is in it; a device that is not initialized is answered
\* at once, else the call into libfreenect is made and fails or not.  None of the
\* four takes a lock.
motorControl(t, failed) ==
    /\ pc[t] \in MotorFunctions
    /\ DeviceReturn(t, pc[t], IF ~device.initialized_ THEN "NotInitialized"
                              ELSE IF failed THEN "MotorControlFailed" ELSE "None")
    /\ UNCHANGED <<xrVars, hScript, buffer, mutex, clock, frameCache, pump,
                 device, server, clients_, broadcaster, conn, hSent, hDriver>>

\* eventLoop: at the head of the loop the flag is read and freenect_process_events
\* is entered or the thread ends; from freenect_process_events it comes back to the
\* head.
eventLoop ==
    /\ pump.pc \in {"loop", "events"}
    /\ pump' = [pump EXCEPT !.pc = IF pump.pc = "events" THEN "loop"
                                   ELSE IF device.eventThreadRunning_ THEN "events"
                                   ELSE "exited"]
    /\ UNCHANGED <<xrVars, hScript, buffer, mutex, clock, pc, frame, ret,
                 frameCache, device, server, clients_, broadcaster, conn, hSent, hDriver>>

\* A depth or video callback on the event thread, inside freenect_process_events:
\* the mutex of the cache is taken and the copy of the frame is begun.
frameCallback(stream, timestamp) ==
    /\ pump.pc = "events"
    /\ device.cache # ""
    /\ Free(device.cache)
    /\ frameCache[device.cache].frameId < MaxFrameId
    /\ mutex' = Lock("pump", device.cache)
    /\ frameCache' = [frameCache EXCEPT ![device.cache][stream].data[1] = timestamp]
    /\ pump' = [pc |-> "copy", stream |-> stream, timestamp |-> timestamp]
    /\ UNCHANGED <<xrVars, hScript, buffer, clock, pc, frame, ret,
                 device, server, clients_, broadcaster, conn, hSent, hDriver>>

\* Fault: the bridge counts every frame in frameId.
frameCallback_copy_everyFrame ==
    /\ pump.pc = "copy"
    /\ frameCache' =
         [frameCache EXCEPT
            ![device.cache][pump.stream] =
               [data |-> [@.data EXCEPT ![2] = pump.timestamp],
                timestamp |-> pump.timestamp, valid |-> TRUE],
            ![device.cache].frameId = IF device.cache = "frameCache_" THEN @ + 1 ELSE @]
    /\ mutex' = Unlock(device.cache)
    /\ pump' = [NoPump EXCEPT !.pc = "events"]
    /\ UNCHANGED <<xrVars, hScript, buffer, clock, pc, frame, ret,
                 device, server, clients_, broadcaster, conn, hSent, hDriver>>

\* The rest of the callback: the copy is finished, timestamp and validity are set,
\* the bridge counts a depth frame in frameId; the mutex is released.
frameCallback_copy ==
    /\ pump.pc = "copy"
    /\ frameCache' =
         [frameCache EXCEPT
            ![device.cache][pump.stream] =
               [data |-> [@.data EXCEPT ![2] = pump.timestamp],
                timestamp |-> pump.timestamp, valid |-> TRUE],
            ![device.cache].frameId =
               IF device.cache = "frameCache_" /\ pump.stream = "depth"
               THEN @ + 1 ELSE @]
    /\ mutex' = Unlock(device.cache)
    /\ pump' = [NoPump EXCEPT !.pc = "events"]
    /\ UNCHANGED <<xrVars, hScript, buffer, clock, pc, frame, ret,
                 device, server, clients_, broadcaster, conn, hSent, hDriver>>

\* Fault: the frame is copied out without the mutex of the cache.
uploadTexture_unlocked(t, stream) ==
    /\ pc[t] = "idle"
    /\ IF frameCache["frameCache"][stream].valid
       THEN /\ buffer' = [buffer EXCEPT ![t] = <<frameCache["frameCache"][stream].data[1]>>]
            /\ CallDevice(t, Call("uploadTexture", 0, 0, stream), "uploadTexture_copy", "idle")
            /\ UNCHANGED ret
       ELSE /\ buffer' = [buffer EXCEPT ![t] = <<>>]
            /\ ret' = [ret EXCEPT ![t] = [NoReturn EXCEPT !.op = "uploadTexture",
                                                           !.res = "false"]]
            /\ UNCHANGED <<pc, frame>>
    /\ UNCHANGED <<xrVars, hScript, mutex, clock, frameCache, pump,
                 device, server, clients_, broadcaster, conn, hSent, hDriver>>

\* uploadRGBTexture and uploadDepthTexture, the copy out of the cache of the session:
\* under the mutex of the cache, the validity flag is read and the copy is begun.
uploadTexture(t, stream) ==
    /\ pc[t] = "idle"
    /\ Free("frameCache")
    /\ IF frameCache["frameCache"][stream].valid
       THEN /\ mutex' = Lock(t, "frameCache")
            /\ buffer' = [buffer EXCEPT ![t] = <<frameCache["frameCache"][stream].data[1]>>]
            /\ CallDevice(t, Call("uploadTexture", 0, 0, stream), "uploadTexture_copy", "idle")
            /\ UNCHANGED ret
       ELSE /\ buffer' = [buffer EXCEPT ![t] = <<>>]
            /\ ret' = [ret EXCEPT ![t] = [NoReturn EXCEPT !.op = "uploadTexture",
                                                           !.res = "false"]]
            /\ UNCHANGED <<pc, frame>>
            /\ UNCHANGED mutex
    /\ UNCHANGED <<xrVars, hScript, clock, frameCache, pump, device,
                 server, clients_, broadcaster, conn, hSent, hDriver>>

\* The copy is finished and the mutex released; the upload is the GPU's.
uploadTexture_copy(t) ==
    /\ pc[t] = "uploadTexture_copy"
    /\ buffer' = [buffer EXCEPT
                    ![t] = Append(@, frameCache["frameCache"][frame[t].e].data[2])]
    /\ mutex' = Unlock("frameCache")
    /\ DeviceReturn(t, "uploadTexture", "true")
    /\ UNCHANGED <<xrVars, hScript, clock, frameCache, pump, device,
                 server, clients_, broadcaster, conn, hSent, hDriver>>

\* ------------------------------------------------------------ bridge server
\* BridgeServer as its constructor leaves it (lastMotorCommand_ is the epoch of the
\* steady clock), a client as onConnection enters it, and the broadcast thread before
\* it is started.
BridgeServer ==
    [running_ |-> FALSE, mockMode_ |-> FALSE, kinectDevice_ |-> "nullptr",
     lastMotorCommand_ |-> 0, framesSent_ |-> 0, droppedFrames_ |-> 0]

ClientState == [subscribedRgb |-> FALSE, subscribedDepth |-> FALSE]

NoBroadcast ==
    [pc |-> "none", now |-> 0, nextFrameTime |-> 0, frameId |-> 0,
     data |-> [s \in Streams |-> <<>>], has |-> [s \in Streams |-> FALSE],
     message |-> <<>>]

\* A message on the wire: its type, the code of an error, the stream type of a binary
\* frame.
Message(type, code, streamType) == [type |-> type, code |-> code, streamType |-> streamType]

\* What has been sent on a connection since it was opened: the type of the first
\* message, the number of hello messages, the number of binary frames of either stream
\* type, and the last message.
NoLog ==
    [first |-> "", hellos |-> 0,
     frames |-> [s \in {STREAM_TYPE_RGB, STREAM_TYPE_DEPTH} |-> 0],
     last |-> Message("", "", 0)]

Sent(log, message) ==
    [first |-> IF log.first = "" THEN message.type ELSE log.first,
     hellos |-> log.hellos + (IF message.type = "hello" THEN 1 ELSE 0),
     frames |-> IF message.type = "binary"
                THEN [log.frames EXCEPT ![message.streamType] = @ + 1]
                ELSE log.frames,
     last |-> message]

\* ws->send(message)
Send(ws, message) == hSent' = [hSent EXCEPT ![ws] = Sent(@, message)]

\* The handler of thread t is done.
Done(t) ==
    /\ pc' = [pc EXCEPT ![t] = "idle"]
    /\ frame' = [frame EXCEPT ![t] = NoFrame]

\* main: setMockMode(true) for --mock.
setMockMode(enabled) ==
    /\ ~server.running_
    /\ server.kinectDevice_ = "nullptr"
    /\ server' = [server EXCEPT !.mockMode_ = enabled]
    /\ UNCHANGED <<xrVars, hScript, buffer, mutex, clock, pc, frame, ret,
                 frameCache, pump, device, clients_, broadcaster, conn, hSent, hDriver>>

\* setKinectDevice, which main calls with an initialized device when --mock is not
\* given: the callbacks that write frameCache_ are registered.
setKinectDevice ==
    /\ ~server.running_
    /\ ~server.mockMode_
    /\ server.kinectDevice_ = "nullptr"
    /\ device.initialized_ /\ device.cache = ""
    /\ server' = [server EXCEPT !.kinectDevice_ = "device"]
    /\ device' = [device EXCEPT !.cache = "frameCache_"]
    /\ UNCHANGED <<xrVars, hScript, buffer, mutex, clock, pc, frame,
                 ret, frameCache, pump, clients_, broadcaster, conn, hSent, hDriver>>

\* start: the server listens and the broadcast thread is started.
start ==
    /\ ~server.running_
    /\ server' = [server EXCEPT !.running_ = TRUE]
    /\ broadcaster' = [NoBroadcast EXCEPT !.pc = "start"]
    /\ UNCHANGED <<xrVars, hScript, buffer, mutex, clock, pc, frame,
                 ret, frameCache, pump, device, clients_, conn, hSent, hDriver>>

\* Fault: a client is entered with both subscriptions set.
onConnection_subscribed(t) ==
    /\ pc[t] = "idle"
    /\ conn[t] = "closed"
    /\ server.running_
    /\ conn' = [conn EXCEPT ![t] = "open"]
    /\ clients_' = (t :> [subscribedRgb |-> TRUE, subscribedDepth |-> TRUE]) @@ clients_
    /\ hSent' = [hSent EXCEPT ![t] = NoLog]
    /\ IF Cardinality(DOMAIN clients_ \cup {t}) = 1
          /\ server.kinectDevice_ # "nullptr" /\ ~server.mockMode_
       THEN CallDevice(t, Call("onConnection", 0, 0, ""), "startStreams", "sendHello")
       ELSE CallDevice(t, Call("onConnection", 0, 0, ""), "sendHello", "idle")
    /\ UNCHANGED <<xrVars, hScript, buffer, mutex, clock, ret,
                 frameCache, pump, device, server, broadcaster, hDriver>>

\* onConnection, lines 133-145: the connection of thread t is opened and its handler
\* runs; the client is entered under clientsMutex_ and the clients are counted; the
\* first client starts the streams of the device.
onConnection(t) ==
    /\ pc[t] = "idle"
    /\ conn[t] = "closed"
    /\ server.running_
    /\ conn' = [conn EXCEPT ![t] = "open"]
    /\ clients_' = (t :> ClientState) @@ clients_
    /\ hSent' = [hSent EXCEPT ![t] = NoLog]
    /\ IF Cardinality(DOMAIN clients_ \cup {t}) = 1
          /\ server.kinectDevice_ # "nullptr" /\ ~server.mockMode_
       THEN CallDevice(t, Call("onConnection", 0, 0, ""), "startStreams", "sendHello")
       ELSE CallDevice(t, Call("onConnection", 0, 0, ""), "sendHello", "idle")
    /\ UNCHANGED <<xrVars, hScript, buffer, mutex, clock, ret,
                 frameCache, pump, device, server, broadcaster, hDriver>>

\* onConnection, lines 155-156: sendHello.
sendHello(t) ==
    /\ pc[t] = "sendHello"
    /\ Send(t, Message("hello", "", 0))
    /\ Done(t)
    /\ UNCHANGED <<xrVars, hScript, buffer, mutex, clock, ret, frameCache,
                 pump, device, server, clients_, broadcaster, conn, hDriver>>

\* onMessage for a message that is not JSON or whose type is not known.
onMessage(t) ==
    /\ pc[t] = "idle"
    /\ conn[t] = "open"
    /\ Send(t, Message("error", "PROTOCOL_ERROR", 0))
    /\ UNCHANGED <<xrVars, hScript, buffer, mutex, clock, pc, frame, ret,
                 frameCache, pump, device, server, clients_, broadcaster, conn, hDriver>>

\* handleSubscribe: under clientsMutex_ both subscriptions are cleared, then set for
\* the names "rgb" and "depth" among streams.
handleSubscribe(t, streams) ==
    /\ pc[t] = "idle"
    /\ conn[t] = "open"
    /\ clients_' = IF t \in DOMAIN clients_
                   THEN [clients_ EXCEPT ![t] = [subscribedRgb |-> "rgb" \in streams,
                                                 subscribedDepth |-> "depth" \in streams]]
                   ELSE clients_
    /\ UNCHANGED <<xrVars, hScript, buffer, mutex, clock, pc, frame, ret,
                 frameCache, pump, device, server, broadcaster, conn, hSent, hDriver>>

handleUnsubscribe(t) ==
    /\ pc[t] = "idle"
    /\ conn[t] = "open"
    /\ clients_' = IF t \in DOMAIN clients_
                   THEN [clients_ EXCEPT ![t] = ClientState]
                   ELSE clients_
    /\ UNCHANGED <<xrVars, hScript, buffer, mutex, clock, pc, frame, ret,
                 frameCache, pump, device, server, broadcaster, conn, hSent, hDriver>>

\* onClose: the client is erased under clientsMutex_ and the clients are counted; the
\* last client stops the streams of the device.
onClose(t) ==
    /\ pc[t] = "idle"
    /\ conn[t] = "open"
    /\ conn' = [conn EXCEPT ![t] = "closed"]
    /\ clients_' = Erase(clients_, t)
    /\ IF DOMAIN clients_ \ {t} = {}
          /\ server.kinectDevice_ # "nullptr" /\ ~server.mockMode_
       THEN CallDevice(t, Call("onClose", 0, 0, ""), "stopStreams", "idle")
       ELSE UNCHANGED <<pc, frame>>
    /\ UNCHANGED <<xrVars, hScript, buffer, mutex, clock, ret,
                 frameCache, pump, device, server, broadcaster, hSent, hDriver>>

\* Fault: a thread that has fallen behind keeps its schedule.
broadcastLoop_noSkip ==
    /\ broadcaster.pc \in {"start", "loop", "sleep", "schedule"}
    /\ CASE broadcaster.pc = "start"
              -> /\ broadcaster' = [broadcaster EXCEPT !.pc = "loop",
                                                       !.nextFrameTime = clock]
                 /\ UNCHANGED <<frameCache, mutex, server>>
         [] broadcaster.pc = "loop" /\ clock < broadcaster.nextFrameTime
              -> /\ broadcaster' = [broadcaster EXCEPT !.pc = "sleep", !.now = clock]
                 /\ UNCHANGED <<frameCache, mutex, server>>
         [] broadcaster.pc = "loop" /\ clock >= broadcaster.nextFrameTime
              -> LET old == frameCache["frameCache_"]
                     id == old.frameId + 1
                     cache == IF server.mockMode_
                              THEN [rgb |-> [old.rgb EXCEPT !.data = <<id, id>>,
                                                            !.valid = TRUE],
                                    depth |-> [old.depth EXCEPT !.data = <<id, id>>,
                                                                !.valid = TRUE],
                                    frameId |-> id]
                              ELSE old IN
                 /\ Free("frameCache_")
                 /\ mutex' = Lock("broadcaster", "frameCache_")
                 /\ frameCache' = [frameCache EXCEPT !["frameCache_"] = cache]
                 /\ broadcaster' =
                      [broadcaster EXCEPT
                         !.pc = "copy", !.now = clock, !.frameId = cache.frameId,
                         !.has = [s \in Streams |-> cache[s].valid],
                         !.data = [s \in Streams |-> IF cache[s].valid
                                                     THEN <<cache[s].data[1]>>
                                                     ELSE <<>>]]
                 /\ UNCHANGED server
         [] broadcaster.pc = "sleep"
              -> /\ clock >= broadcaster.nextFrameTime
                 /\ broadcaster' = [broadcaster EXCEPT !.pc = "loop"]
                 /\ UNCHANGED <<frameCache, mutex, server>>
         [] broadcaster.pc = "schedule"
              -> LET next == broadcaster.nextFrameTime + FRAME_INTERVAL_MS
                     skipped == (broadcaster.now - next) \div FRAME_INTERVAL_MS IN
                 /\ broadcaster' = [broadcaster EXCEPT !.pc = "loop", !.nextFrameTime = next]
                 /\ server' = IF next < broadcaster.now
                              THEN [server EXCEPT !.droppedFrames_ = @ + skipped]
                              ELSE server
                 /\ UNCHANGED <<frameCache, mutex>>
    /\ UNCHANGED <<xrVars, hScript, buffer, clock, pc, frame,
                 ret, pump, device, clients_, conn, hSent, hDriver>>

\* broadcastLoop outside the critical section of the cache: the thread starts; at the
\* head of the loop it reads the clock and, when the next frame is due, takes the
\* mutex of the cache (in mock mode it generates the next frame there), reads frameId
\* and the validity flags and begins the copies, else it sleeps until the frame is
\* due; after the broadcast it schedules the next frame.  The statistics it prints
\* are left out.
broadcastLoop ==
    /\ broadcaster.pc \in {"start", "loop", "sleep", "schedule"}
    /\ CASE broadcaster.pc = "start"
              -> /\ broadcaster' = [broadcaster EXCEPT !.pc = "loop",
                                                       !.nextFrameTime = clock]
                 /\ UNCHANGED <<frameCache, mutex, server>>
         [] broadcaster.pc = "loop" /\ clock < broadcaster.nextFrameTime
              -> /\ broadcaster' = [broadcaster EXCEPT !.pc = "sleep", !.now = clock]
                 /\ UNCHANGED <<frameCache, mutex, server>>
         [] broadcaster.pc = "loop" /\ clock >= broadcaster.nextFrameTime
              -> LET old == frameCache["frameCache_"]
                     id == old.frameId + 1
                     cache == IF server.mockMode_
                              THEN [rgb |-> [old.rgb EXCEPT !.data = <<id, id>>,
                                                            !.valid = TRUE],
                                    depth |-> [old.depth EXCEPT !.data = <<id, id>>,
                                                                !.valid = TRUE],
                                    frameId |-> id]
                              ELSE old IN
                 /\ Free("frameCache_")
                 /\ mutex' = Lock("broadcaster", "frameCache_")
                 /\ frameCache' = [frameCache EXCEPT !["frameCache_"] = cache]
                 /\ broadcaster' =
                      [broadcaster EXCEPT
                         !.pc = "copy", !.now = clock, !.frameId = cache.frameId,
                         !.has = [s \in Streams |-> cache[s].valid],
                         !.data = [s \in Streams |-> IF cache[s].valid
                                                     THEN <<cache[s].data[1]>>
                                                     ELSE <<>>]]
                 /\ UNCHANGED server
         [] broadcaster.pc = "sleep"
              -> /\ clock >= broadcaster.nextFrameTime
                 /\ broadcaster' = [broadcaster EXCEPT !.pc = "loop"]
                 /\ UNCHANGED <<frameCache, mutex, server>>
         [] broadcaster.pc = "schedule"
              -> LET next == broadcaster.nextFrameTime + FRAME_INTERVAL_MS
                     skipped == (broadcaster.now - next) \div FRAME_INTERVAL_MS IN
                 /\ broadcaster' =
                      [broadcaster EXCEPT
                         !.pc = "loop",
                         !.nextFrameTime = IF next < broadcaster.now
                                           THEN broadcaster.now + FRAME_INTERVAL_MS
                                           ELSE next]
                 /\ server' = IF next < broadcaster.now
                              THEN [server EXCEPT !.droppedFrames_ = @ + skipped]
                              ELSE server
                 /\ UNCHANGED <<frameCache, mutex>>
    /\ UNCHANGED <<xrVars, hScript, buffer, clock, pc, frame,
                 ret, pump, device, clients_, conn, hSent, hDriver>>

\* broadcastLoop, the rest of the critical section of the cache: the copies are
\* finished and the mutex is released.
broadcastLoop_copy ==
    /\ broadcaster.pc = "copy"
    /\ broadcaster' =
         [broadcaster EXCEPT
            !.pc = "rgb",
            !.data = [s \in Streams |->
                        IF broadcaster.has[s]
                        THEN Append(broadcaster.data[s],
                                    frameCache["frameCache_"][s].data[2])
                        ELSE <<>>]]
    /\ mutex' = Unlock("frameCache_")
    /\ UNCHANGED <<xrVars, hScript, buffer, clock, pc, frame, ret,
                 frameCache, pump, device, server, clients_, conn, hSent, hDriver>>

\* The size in bytes of the buffer the cache keeps for a stream.
FrameSize(stream) == IF stream = "rgb" THEN RGB_FRAME_SIZE ELSE DEPTH_FRAME_SIZE

\* Fault: the header is written with the high byte first.
BinaryMessage_bigEndian(streamType, size, frameId) ==
    <<(frameId \div 16777216) % 256, (frameId \div 65536) % 256,
      (frameId \div 256) % 256, frameId % 256,
      (streamType \div 256) % 256, streamType % 256, 0, 0, size>>

\* The binary message broadcastFrame builds: the eight bytes of its header, and in the
\* place of the pixel data the number of its bytes.
BinaryMessage(streamType, size, frameId) ==
    <<frameId % 256, (frameId \div 256) % 256, (frameId \div 65536) % 256,
      (frameId \div 16777216) % 256,
      streamType % 256, (streamType \div 256) % 256, 0, 0, size>>

\* Fault: the frame is sent to every client.
broadcastFrame_everyClient(stream) ==
    /\ broadcaster.pc = stream
    /\ IF broadcaster.has[stream]
       THEN /\ hSent' = [ws \in DOMAIN hSent |->
                           IF ws \in DOMAIN clients_
                           THEN Sent(hSent[ws], Message("binary", "", StreamType(stream)))
                           ELSE hSent[ws]]
            /\ server' = [server EXCEPT !.framesSent_ = @ + Cardinality(DOMAIN clients_)]
       ELSE UNCHANGED <<hSent, server>>
    /\ broadcaster' = [broadcaster EXCEPT
                         !.pc = IF stream = "rgb" THEN "depth" ELSE "schedule"]
    /\ UNCHANGED <<xrVars, hScript, buffer, mutex, clock, pc, frame,
                 ret, frameCache, pump, device, clients_, conn, hDriver>>

\* broadcastLoop, lines 587-593, and broadcastFrame: of the copy of the stream, if the
\* cache had one, the message is built and sent under clientsMutex_ to every client
\* whose subscription has the stream, first rgb and then depth.
broadcastFrame(stream) ==
    /\ broadcaster.pc = stream
    /\ LET shouldSend(ws) ==
              \/ StreamType(stream) = STREAM_TYPE_RGB /\ clients_[ws].subscribedRgb
              \/ StreamType(stream) = STREAM_TYPE_DEPTH /\ clients_[ws].subscribedDepth IN
       IF broadcaster.has[stream]
       THEN /\ hSent' = [ws \in DOMAIN hSent |->
                           IF ws \in DOMAIN clients_ /\ shouldSend(ws)
                           THEN Sent(hSent[ws], Message("binary", "", StreamType(stream)))
                           ELSE hSent[ws]]
            /\ server' = [server EXCEPT
                            !.framesSent_ = @ + Cardinality({ws \in DOMAIN clients_ :
                                                               shouldSend(ws)})]
       ELSE UNCHANGED <<hSent, server>>
    /\ broadcaster' = [broadcaster EXCEPT
                         !.pc = IF stream = "rgb" THEN "depth" ELSE "schedule",
                         !.message = IF broadcaster.has[stream]
                                     THEN BinaryMessage(StreamType(stream), FrameSize(stream),
                                                        broadcaster.frameId)
                                     ELSE @]
    /\ UNCHANGED <<xrVars, hScript, buffer, mutex, clock, pc, frame,
                 ret, frameCache, pump, device, clients_, conn, hDriver>>

\* ------------------------------------------------------------ motor gateway
\* The rate limit of handleMotorSetTilt and handleMotorReset, under motorMutex_: the
\* command is turned away within rate_limit_ms of the last one let through, else it
\* is let through and its time kept.
RateLimited == clock - server.lastMotorCommand_ < rate_limit_ms

\* Fault: the time of the command is not kept.
handleMotorSetTilt_noWindow(t) ==
    /\ pc[t] = "idle"
    /\ conn[t] = "open"
    /\ IF server.kinectDevice_ = "nullptr"
       THEN /\ Send(t, Message("motor.error", "DEVICE_NOT_CONNECTED", 0))
            /\ UNCHANGED <<pc, frame, server, hDriver>>
       ELSE IF RateLimited
       THEN /\ Send(t, Message("motor.error", "RATE_LIMITED", 0))
            /\ UNCHANGED <<pc, frame, server, hDriver>>
       ELSE /\ hDriver' = clock
            /\ CallDevice(t, Call("handleMotorSetTilt", 0, 0, ""), "setTiltAngle",
                          "handleMotor_control")
            /\ UNCHANGED <<hSent, server>>
    /\ UNCHANGED <<xrVars, hScript, buffer, mutex, clock, ret,
                 frameCache, pump, device, clients_, broadcaster, conn>>

\* handleMotorSetTilt up to the call of setTiltAngle (the angle, which the device
\* clamps, is left out).
handleMotorSetTilt(t) ==
    /\ pc[t] = "idle"
    /\ conn[t] = "open"
    /\ IF server.kinectDevice_ = "nullptr"
       THEN /\ Send(t, Message("motor.error", "DEVICE_NOT_CONNECTED", 0))
            /\ UNCHANGED <<pc, frame, server, hDriver>>
       ELSE IF RateLimited
       THEN /\ Send(t, Message("motor.error", "RATE_LIMITED", 0))
            /\ UNCHANGED <<pc, frame, server, hDriver>>
       ELSE /\ server' = [server EXCEPT !.lastMotorCommand_ = clock]
            /\ hDriver' = clock
            /\ CallDevice(t, Call("handleMotorSetTilt", 0, 0, ""), "setTiltAngle",
                          "handleMotor_control")
            /\ UNCHANGED hSent
    /\ UNCHANGED <<xrVars, hScript, buffer, mutex, clock, ret,
                 frameCache, pump, device, clients_, broadcaster, conn>>

\* handleMotorReset up to the call of setTiltAngle(0.0).
handleMotorReset(t) ==
    /\ pc[t] = "idle"
    /\ conn[t] = "open"
    /\ IF server.kinectDevice_ = "nullptr"
       THEN /\ Send(t, Message("motor.error", "DEVICE_NOT_CONNECTED", 0))
            /\ UNCHANGED <<pc, frame, server, hDriver>>
       ELSE IF RateLimited
       THEN /\ Send(t, Message("motor.error", "RATE_LIMITED", 0))
            /\ UNCHANGED <<pc, frame, server, hDriver>>
       ELSE /\ server' = [server EXCEPT !.lastMotorCommand_ = clock]
            /\ hDriver' = clock
            /\ CallDevice(t, Call("handleMotorReset", 0, 0, ""), "setTiltAngle",
                          "handleMotor_control")
            /\ UNCHANGED hSent
    /\ UNCHANGED <<xrVars, hScript, buffer, mutex, clock, ret,
                 frameCache, pump, device, clients_, broadcaster, conn>>

LEDStates == {"off", "green", "red", "yellow", "blink_green", "blink_red_yellow"}

\* handleMotorSetLed up to the call of setLED: there is no rate limit in it.
handleMotorSetLed(t, state) ==
    /\ pc[t] = "idle"
    /\ conn[t] = "open"
    /\ IF server.kinectDevice_ = "nullptr"
       THEN /\ Send(t, Message("motor.error", "DEVICE_NOT_CONNECTED", 0))
            /\ UNCHANGED <<pc, frame>>
       ELSE IF state \notin LEDStates
       THEN /\ Send(t, Message("motor.error", "INVALID_LED_STATE", 0))
            /\ UNCHANGED <<pc, frame>>
       ELSE /\ CallDevice(t, Call("handleMotorSetLed", 0, 0, state), "setLED",
                          "handleMotor_control")
            /\ UNCHANGED hSent
    /\ UNCHANGED <<xrVars, hScript, buffer, mutex, clock, ret, frameCache,
                 pump, device, server, clients_, broadcaster, conn, hDriver>>

\* handleMotorGetStatus up to the call of getMotorStatus: no rate limit either.
handleMotorGetStatus(t) ==
    /\ pc[t] = "idle"
    /\ conn[t] = "open"
    /\ IF server.kinectDevice_ = "nullptr"
       THEN /\ Send(t, Message("motor.error", "DEVICE_NOT_CONNECTED", 0))
            /\ UNCHANGED <<pc, frame>>
       ELSE /\ CallDevice(t, Call("handleMotorGetStatus", 0, 0, ""), "getMotorStatus",
                          "handleMotor_status")
            /\ UNCHANGED hSent
    /\ UNCHANGED <<xrVars, hScript, buffer, mutex, clock, ret, frameCache,
                 pump, device, server, clients_, broadcaster, conn, hDriver>>

\* setTiltAngle or setLED has returned to its handler: an error is reported, else
\* getMotorStatus is called.
handleMotor_control(t) ==
    /\ pc[t] = "handleMotor_control"
    /\ IF ret[t].res # "None"
       THEN /\ Send(t, Message("motor.error",
                               IF frame[t].op = "handleMotorSetLed"
                               THEN "LED_CONTROL_FAILED" ELSE "MOTOR_CONTROL_FAILED", 0))
            /\ Done(t)
       ELSE /\ CallDevice(t, frame[t], "getMotorStatus", "handleMotor_status")
            /\ UNCHANGED hSent
    /\ UNCHANGED <<xrVars, hScript, buffer, mutex, clock, ret, frameCache,
                 pump, device, server, clients_, broadcaster, conn, hDriver>>

\* getMotorStatus has returned to its handler: the status is sent; its failure is
\* reported, except by handleMotorSetLed.
handleMotor_status(t) ==
    /\ pc[t] = "handleMotor_status"
    /\ IF ret[t].res = "None"
       THEN Send(t, Message("motor.status", "", 0))
       ELSE IF frame[t].op = "handleMotorSetLed"
       THEN UNCHANGED hSent
       ELSE Send(t, Message("motor.error", "MOTOR_STATUS_FAILED", 0))
    /\ Done(t)
    /\ UNCHANGED <<xrVars, hScript, buffer, mutex, clock, ret, frameCache,
                 pump, device, server, clients_, broadcaster, conn, hDriver>>

\* Time passes on the steady clock.
Elapse(ms, max) ==
    /\ clock + ms <= max
    /\ clock' = clock + ms
    /\ UNCHANGED <<xrVars, hScript, buffer, mutex, pc, frame, ret, frameCache,
                 pump, device, server, clients_, broadcaster, conn, hSent, hDriver>>

\* ------------------------------------------------------------------- Init
\* The runtime without an instance and the threads outside every call.
Constructed ==
    /\ instances_ = <<>>
    /\ nextInstanceId_ = 1
    /\ nextSystemId_ = 1
    /\ sessions_ = <<>>
    /\ nextSessionId_ = 1
    /\ swapchains_ = <<>>
    /\ nextSwapchainId_ = 1
    /\ mutex = [m \in Mutexes |-> NoThread]
    /\ clock = 1
    /\ pc = [t \in Threads |-> "idle"]
    /\ frame = [t \in Threads |-> NoFrame]
    /\ hEnqueued = <<>>
    /\ hPolled = <<>>
    /\ hAcquired = <<>>
    /\ hReleased = <<>>
    /\ hScript = NoScript
    /\ spaces_ = <<>>
    /\ nextSpaceId_ = 1
    /\ hHandles = NoHandles
    /\ buffer = [t \in Threads |-> <<>>]
    /\ hDriver = -1

\* The state after construction of runtime, device and bridge server.
Init ==
    /\ Constructed
    /\ ret = [t \in Threads |-> NoReturn]
    /\ frameCache = [c \in {"frameCache", "frameCache_"} |-> BridgeFrameCache]
    /\ pump = NoPump
    /\ device = KinectDevice
    /\ server = BridgeServer
    /\ clients_ = <<>>
    /\ broadcaster = NoBroadcast
    /\ conn = [t \in Threads |-> "closed"]
    /\ hSent = [t \in Threads |-> NoLog]

\* ------------------------------------------------- the session specification
\* One application thread and the calls of instance, system, session and event queue.
\* The handle counters are capped: no create that can succeed is made past MaxInstances /
\* MaxSessions, and the application has one instance at a time.
SessionCall(t) ==
    \/ nextInstanceId_ <= MaxInstances /\ DOMAIN instances_ = {} /\ createInstance(t)
    \/ \E i \in HandleArgs(nextInstanceId_, MaxInstances) :
          \/ destroyInstance(t, i)
          \/ \E ff \in {"HEAD_MOUNTED_DISPLAY", "HANDHELD_DISPLAY"} : getSystem(t, i, ff)
          \/ pollEvent(t, i)
          \/ /\ \/ nextSessionId_ <= MaxSessions
                \/ \E s \in DOMAIN sessions_ : sessions_[s].instance = i
             /\ \E sys \in HandleArgs(nextSystemId_, MaxInstances) :
                \E b \in DOMAIN NextChains : createSession(t, i, sys, b)
    \/ \E s \in HandleArgs(nextSessionId_, MaxSessions) :
          \/ destroySession(t, s)
          \/ \E vct \in {"PRIMARY_MONO", "PRIMARY_STEREO"} : beginSession(t, s, vct)
          \/ endSession(t, s)

\* The steps inside createSession and beginSession.
SetupStep(t) ==
    \/ createSession_limit(t)
    \/ createSession_insert(t)
    \/ createSession_queue(t)
    \/ beginSession_queue(t)

Next == SessionCall("t1") \/ SetupStep("t1") \/ endSession_queue("t1")

Spec == Init /\ [][Next]_vars

\* ----------------------------------------------- the swapchain specification
\* One application thread that sets up a session and works on its swapchains, and the
\* event thread of the device.  No create that can succeed is made past MaxSwapchains,
\* no acquire that can succeed past MaxAcquires per swapchain.
SetupCall(t) ==
    \/ nextInstanceId_ <= MaxInstances /\ DOMAIN instances_ = {} /\ createInstance(t)
    \/ \E i \in DOMAIN instances_ :
          \/ getSystem(t, i, "HEAD_MOUNTED_DISPLAY")
          \/ /\ nextSessionId_ <= MaxSessions
             /\ createSession(t, i, instances_[i].system, "metalBinding")
    \/ \E s \in DOMAIN sessions_ : beginSession(t, s, "PRIMARY_MONO")

SwapchainCalls(t) ==
    \/ /\ nextSwapchainId_ <= MaxSwapchains
       /\ \E s \in HandleArgs(nextSessionId_, MaxSessions) :
          \E format \in {FormatBGRA8Unorm, FormatR16Uint, 0} :
          \E usage \in {"COLOR", "DEPTH", "NONE"} :
          \E width \in {KinectWidth, KinectWidth + 1} :
             createSwapchain(t, s, format, usage, width)
    \/ \E c \in HandleArgs(nextSwapchainId_, MaxSwapchains) :
          \/ destroySwapchain(t, c)
          \/ /\ IF c \in DOMAIN swapchains_ /\ ~swapchains_[c].imageAcquired
                THEN Len(hAcquired[c]) < MaxAcquires
                ELSE TRUE
             /\ acquireSwapchainImage(t, c)
          \/ waitSwapchainImage(t, c)
          \/ releaseSwapchainImage(t, c)

SwapchainStep(t) ==
    \/ createSwapchain_id(t)
    \/ createSwapchain_session(t)
    \/ waitSwapchainImage_upload(t)

DeviceThread ==
    \E s \in DOMAIN sessions_ : depthCallback(s) \/ videoCallback(s)

NextSwapchain ==
    \/ SetupCall("t1")
    \/ SetupStep("t1")
    \/ SwapchainCalls("t1")
    \/ SwapchainStep("t1")
    \/ DeviceThread

SpecSwapchain == Init /\ [][NextSwapchain]_vars

\* --------------------------------------------- the create-race specification
\* Two application threads that call createSession on the instance thread "t1" has set
\* up.
NextCreateRace ==
    \/ nextInstanceId_ <= MaxInstances /\ createInstance("t1")
    \/ \E i \in DOMAIN instances_ : getSystem("t1", i, "HEAD_MOUNTED_DISPLAY")
    \/ \E t \in Threads : \E i \in DOMAIN instances_ :
          /\ nextSessionId_ <= MaxSessions
          /\ createSession(t, i, instances_[i].system, "metalBinding")
    \/ \E t \in Threads : createSession_limit(t)
    \/ \E t \in Threads : createSession_insert(t)
    \/ \E t \in Threads : createSession_queue(t)
    \/ \E i \in DOMAIN instances_ : pollEvent("t1", i)

SpecCreateRace == Init /\ [][NextCreateRace]_vars

\* ------------------------------------------------ the two-session specification
\* Two application threads, each with an instance and a session of its own: thread
\* "t1" works on instance 1 and its session, thread "t2" on instance 2 and its session,
\* so no handle is used by two threads.
Own(t) == IF t = "t1" THEN 1 ELSE 2

Mine(t) == {s \in DOMAIN sessions_ : sessions_[s].instance = Own(t)}

FrameCalls(t) ==
    \/ nextInstanceId_ = Own(t) /\ nextInstanceId_ <= MaxParallel /\ createInstance(t)
    \/ /\ Own(t) \in DOMAIN instances_
       /\ \/ getSystem(t, Own(t), "HEAD_MOUNTED_DISPLAY")
          \/ /\ nextSessionId_ <= MaxParallel
             /\ createSession(t, Own(t), instances_[Own(t)].system, "metalBinding")
    \/ \E s \in Mine(t) :
          \/ beginSession(t, s, "PRIMARY_MONO")
          \/ /\ sessions_[s].frameState.frameCount < MaxFrames
             /\ waitFrame(t, s)
          \/ beginFrame(t, s)

FrameBlocks(t) ==
    \E s \in Mine(t) :
        \/ Block(t, Call("beginSession", s, 0, "PRIMARY_MONO"))
        \/ /\ sessions_[s].frameState.frameCount < MaxFrames
           /\ Block(t, Call("waitFrame", s, 0, ""))
        \/ Block(t, Call("beginFrame", s, 0, ""))

NextFrames ==
    \/ \E t \in Threads : FrameCalls(t)
    \/ \E t \in Threads : FrameBlocks(t)
    \/ \E t \in Threads : SetupStep(t)
    \/ \E t \in Threads : waitFrame_sleep(t)
    \/ Tick

SpecFrames == Init /\ [][NextFrames]_vars

\* ------------------------------------------------- the lock-order specification
\* Thread "t1" sets up a session and runs its frames, with a depth info in the layers
\* of endFrame; thread "t2" creates the swapchains of that session, acquires an image
\* of each and waits on it.
DepthFrameCalls(t) ==
    \/ SetupCall(t)
    \/ \E s \in DOMAIN sessions_ :
          \/ beginFrame(t, s)
          \/ \E c \in DOMAIN swapchains_ :
                endFrame(t, s, "OPAQUE", "PROJECTION_DEPTH", c)

TextureCalls(t) ==
    \/ /\ nextSwapchainId_ <= MaxParallel
       /\ \E s \in DOMAIN sessions_ :
             \/ createSwapchain(t, s, FormatR16Uint, "DEPTH", KinectWidth)
             \/ createSwapchain(t, s, FormatBGRA8Unorm, "COLOR", KinectWidth)
    \/ \E c \in DOMAIN swapchains_ :
          \/ /\ Len(hAcquired[c]) < MaxAcquires
             /\ acquireSwapchainImage(t, c)
          \/ waitSwapchainImage(t, c)

TextureBlocks(t) ==
    /\ nextSwapchainId_ <= MaxParallel
    /\ \E s \in DOMAIN sessions_ :
          \/ Block(t, SwapchainCall(s, FormatR16Uint, "DEPTH", KinectWidth))
          \/ Block(t, SwapchainCall(s, FormatBGRA8Unorm, "COLOR", KinectWidth))

NextLocks ==
    \/ DepthFrameCalls("t1")
    \/ SetupStep("t1")
    \/ endFrame_depth("t1")
    \/ TextureCalls("t2")
    \/ TextureBlocks("t2")
    \/ SwapchainStep("t2")

SpecLocks == Init /\ [][NextLocks]_vars

\* ------------------------------------------------ the frame-loop specification
\* One application thread that sets up a session, creates a swapchain for the depth
\* info, runs the frame loop with good and bad arguments and ends the session.  No
\* waitFrame that can succeed is made past MaxFrames frames.
FrameLoopCalls(t) ==
    \/ SetupCall(t)
    \/ /\ nextSwapchainId_ <= MaxSwapchains
       /\ \E s \in DOMAIN sessions_ : \E width \in {KinectWidth, KinectWidth \div 2} :
             \/ createSwapchain(t, s, FormatR16Uint, "DEPTH", width)
             \/ createSwapchain(t, s, FormatBGRA8Unorm, "COLOR", width)
    \/ \E s \in HandleArgs(nextSessionId_, MaxSessions) :
          \/ endSession(t, s)
          \/ /\ IF s \in DOMAIN sessions_
                THEN sessions_[s].frameState.frameCount < MaxFrames
                ELSE TRUE
             /\ waitFrame(t, s)
          \/ beginFrame(t, s)
          \/ \E blendMode \in BlendModes : \E layers \in LayerKinds :
             \E c \in HandleArgs(nextSwapchainId_, MaxSwapchains) :
                endFrame(t, s, blendMode, layers, c)

NextFrameLoop ==
    \/ FrameLoopCalls("t1")
    \/ SetupStep("t1")
    \/ endSession_queue("t1")
    \/ createSwapchain_id("t1")
    \/ createSwapchain_session("t1")
    \/ waitFrame_sleep("t1")
    \/ endFrame_depth("t1")
    \/ Tick

SpecFrameLoop == Init /\ [][NextFrameLoop]_vars

\* --------------------------------------------------- the handle specification
\* One application thread that creates and destroys handles of the four tables, at most
\* max of each and one instance at a time.
HandleCalls(t, max) ==
    \/ nextInstanceId_ <= max /\ DOMAIN instances_ = {} /\ createInstance(t)
    \/ \E i \in DOMAIN instances_ :
          \/ destroyInstance(t, i)
          \/ getSystem(t, i, "HEAD_MOUNTED_DISPLAY")
          \/ /\ nextSessionId_ <= max
             /\ createSession(t, i, instances_[i].system, "metalBinding")
    \/ \E s \in DOMAIN sessions_ :
          \/ destroySession(t, s)
          \/ nextSpaceId_ <= max /\ createReferenceSpace(t, s, "LOCAL")
          \/ /\ nextSwapchainId_ <= max
             /\ createSwapchain(t, s, FormatR16Uint, "DEPTH", KinectWidth)
          \/ \E space \in HandleArgs(nextSpaceId_, max) :
                locateViews(t, s, sessions_[s].viewConfigurationType, space)
    \/ \E space \in DOMAIN spaces_ : destroySpace(t, space)
    \/ \E c \in DOMAIN swapchains_ : destroySwapchain(t, c)

HandleStep(t) ==
    \/ createSession_limit(t)
    \/ createSession_insert(t)
    \/ createSession_queue(t)
    \/ createReferenceSpace_insert(t)
    \/ locateViews_space(t)
    \/ createSwapchain_id(t)
    \/ createSwapchain_session(t)

NextHandles == HandleCalls("t1", MaxHandles) \/ HandleStep("t1")

SpecHandles == Init /\ [][NextHandles]_vars

\* ---------------------------------------------- the stale-handle specification
\* The same thread with at most MaxStale handles of each table, which goes on using the
\* handles that are not live: those it has destroyed and the next one of each table,
\* not handed out yet.
Stale(table, nextId) == HandleArgs(nextId, MaxStale) \ DOMAIN table

StaleCalls(t) ==
    \/ \E i \in Stale(instances_, nextInstanceId_) :
          \/ destroyInstance(t, i)
          \/ getSystem(t, i, "HEAD_MOUNTED_DISPLAY")
          \/ pollEvent(t, i)
          \/ createSession(t, i, 1, "metalBinding")
    \/ \E s \in Stale(sessions_, nextSessionId_) :
          \/ destroySession(t, s)
          \/ beginSession(t, s, "PRIMARY_MONO")
          \/ endSession(t, s)
          \/ createReferenceSpace(t, s, "LOCAL")
          \/ createSwapchain(t, s, FormatR16Uint, "DEPTH", KinectWidth)
          \/ locateViews(t, s, "PRIMARY_MONO", 1)
          \/ waitFrame(t, s)
          \/ beginFrame(t, s)
          \/ endFrame(t, s, "OPAQUE", "NO_LAYERS", 0)
    \/ \E space \in Stale(spaces_, nextSpaceId_) : destroySpace(t, space)
    \/ \E c \in Stale(swapchains_, nextSwapchainId_) :
          \/ destroySwapchain(t, c)
          \/ acquireSwapchainImage(t, c)
          \/ waitSwapchainImage(t, c)
          \/ releaseSwapchainImage(t, c)

NextStale == HandleCalls("t1", MaxStale) \/ StaleCalls("t1") \/ HandleStep("t1")

SpecStale == Init /\ [][NextStale]_vars

\* ---------------------------------------------------- the scope specification
\* One application thread with up to MaxParallel instances live at a time, a session
\* on each, which passes the system ids, spaces and swapchains it has to calls on any of
\* its instances and sessions.
ScopeCalls(t) ==
    \/ nextInstanceId_ <= MaxParallel /\ createInstance(t)
    \/ \E i \in DOMAIN instances_ :
          \/ instances_[i].system = 0 /\ getSystem(t, i, "HEAD_MOUNTED_DISPLAY")
          \/ /\ nextSessionId_ <= MaxParallel
             /\ \E sys \in 1..(nextSystemId_ - 1) : createSession(t, i, sys, "metalBinding")
    \/ \E s \in DOMAIN sessions_ :
          \/ sessions_[s].state = "READY" /\ beginSession(t, s, "PRIMARY_MONO")
          \/ nextSpaceId_ <= MaxSwapchains /\ createReferenceSpace(t, s, "LOCAL")
          \/ /\ nextSwapchainId_ <= MaxSwapchains
             /\ createSwapchain(t, s, FormatR16Uint, "DEPTH", KinectWidth)
          \/ \E space \in DOMAIN spaces_ :
                locateViews(t, s, sessions_[s].viewConfigurationType, space)
          \/ ~sessions_[s].frameState.frameInProgress /\ beginFrame(t, s)
          \/ \E c \in DOMAIN swapchains_ :
                endFrame(t, s, "OPAQUE", "PROJECTION_DEPTH", c)

NextScopes ==
    \/ ScopeCalls("t1")
    \/ SetupStep("t1")
    \/ createReferenceSpace_insert("t1")
    \/ locateViews_space("t1")
    \/ createSwapchain_id("t1")
    \/ createSwapchain_session("t1")
    \/ endFrame_depth("t1")

SpecScopes == Init /\ [][NextScopes]_vars

\* --------------------------------------------- the enumeration specification
\* One application thread that sets up a session and a swapchain and calls the
\* enumeration functions with every capacity up to MaxCapacity.
NextEnumerate ==
    \/ \E capacityInput \in 0..MaxCapacity : \E out \in OutArgs :
          \/ \E layerName \in {"nullptr", "layer"} :
                xrEnumerateInstanceExtensionProperties("t1", layerName, capacityInput,
                                                       out)
          \/ xrEnumerateApiLayerProperties("t1", capacityInput, out)
          \/ \E i \in HandleArgs(nextInstanceId_, MaxInstances) :
             \E sys \in 1..2 :
                \/ xrEnumerateViewConfigurations("t1", i, sys, capacityInput, out)
                \/ \E vct \in {"PRIMARY_MONO", "PRIMARY_STEREO"} :
                      xrEnumerateViewConfigurationViews("t1", i, sys, vct,
                                                        capacityInput, out)
          \/ \E s \in HandleArgs(nextSessionId_, MaxInstances) :
                \/ enumerateReferenceSpaces("t1", s, capacityInput, out)
                \/ enumerateSwapchainFormats("t1", s, capacityInput, out)
          \/ \E c \in HandleArgs(nextSwapchainId_, MaxSwapchains) :
                enumerateSwapchainImages("t1", c, capacityInput, out)
    \/ nextInstanceId_ <= MaxInstances /\ createInstance("t1")
    \/ \E i \in DOMAIN instances_ :
          \/ getSystem("t1", i, "HEAD_MOUNTED_DISPLAY")
          \/ /\ nextSessionId_ <= MaxInstances
             /\ createSession("t1", i, instances_[i].system, "metalBinding")
    \/ createSession_limit("t1")
    \/ createSession_insert("t1")
    \/ createSession_queue("t1")
    \/ /\ nextSwapchainId_ <= MaxSwapchains
       /\ \E s \in DOMAIN sessions_ :
             createSwapchain("t1", s, FormatBGRA8Unorm, "COLOR", KinectWidth)
    \/ createSwapchain_id("t1")
    \/ createSwapchain_session("t1")
    \/ isValidSystem("t1")

SpecEnumerate == Init /\ [][NextEnumerate]_vars

\* --------------------------------------------------- the device specification
\* The device facade on its own: thread t1 initializes the device and starts and stops
\* its streams, with every native failure; both threads call the motor functions; the
\* event thread runs.  No callback is registered.
StartFailures == {"none", "depth mode", "video mode", "start depth", "start video"}

NextDevice ==
    \/ \E fn \in {"initialize", "startStreams", "stopStreams"} : deviceCall("t1", fn)
    \/ \E t \in Threads : \E fn \in MotorFunctions : deviceCall(t, fn)
    \/ \E error \in {"None", "DeviceNotFound", "InitializationFailed"} :
          initialize("t1", error)
    \/ \E failure \in StartFailures : startStreams("t1", failure)
    \/ startStreams_thread("t1")
    \/ stopStreams("t1")
    \/ stopStreams_join("t1")
    \/ \E t \in Threads : \E failed \in BOOLEAN : motorControl(t, failed)
    \/ eventLoop

SpecDevice == Init /\ [][NextDevice]_vars

\* ---------------------------------------------- the frame-cache specification
\* The writers and the readers of the two frame caches.  Thread t1 initializes the
\* device; either the callbacks of a session are registered, t1 starts the streams and
\* copies frames out of the cache of the session, or the device is given to the bridge,
\* the client t2 connects and subscribes, and the broadcast thread copies frames out
\* of frameCache_.  Frames arrive with the timestamps 1..MaxTimestamp.
NextFrameCache ==
    \/ \E fn \in {"initialize", "startStreams"} : deviceCall("t1", fn)
    \/ initialize("t1", "None")
    \/ setDepthCallback
    \/ \E t \in Threads : startStreams(t, "none")
    \/ \E t \in Threads : startStreams_thread(t)
    \/ setKinectDevice
    \/ start
    \/ onConnection("t2")
    \/ sendHello("t2")
    \/ handleSubscribe("t2", Streams)
    \/ eventLoop
    \/ \E stream \in Streams : \E timestamp \in 1..MaxTimestamp :
          frameCallback(stream, timestamp)
    \/ frameCallback_copy
    \/ \E stream \in Streams : uploadTexture("t1", stream)
    \/ uploadTexture_copy("t1")
    \/ broadcastLoop
    \/ broadcastLoop_copy
    \/ \E stream \in Streams : broadcastFrame(stream)
    \/ Elapse(FRAME_INTERVAL_MS, 1 + MaxBroadcasts * FRAME_INTERVAL_MS)

SpecFrameCache == Init /\ [][NextFrameCache]_vars

\* --------------------------------------------------- the bridge specification
\* The bridge in mock mode or without a device: two connections open and close,
\* subscribe and unsubscribe, and send messages the server does not know; the
\* broadcast thread runs for MaxBroadcasts frame periods.
NextBridge ==
    \/ setMockMode(TRUE)
    \/ start
    \/ \E t \in Threads : onConnection(t)
    \/ \E t \in Threads : sendHello(t)
    \/ \E t \in Threads : onMessage(t)
    \/ \E t \in Threads : \E streams \in {{"rgb"}, {"depth", "ir"}, {"rgb", "depth"}} :
          handleSubscribe(t, streams)
    \/ \E t \in Threads : handleUnsubscribe(t)
    \/ \E t \in Threads : onClose(t)
    \/ broadcastLoop
    \/ broadcastLoop_copy
    \/ \E stream \in Streams : broadcastFrame(stream)
    \/ Elapse(FRAME_INTERVAL_MS, 1 + MaxBroadcasts * FRAME_INTERVAL_MS)

SpecBridge == Init /\ [][NextBridge]_vars

\* -------------------------------------------------- the streams specification
\* The bridge as main sets it up, in mock mode or with an initialized device: two
\* connections open and close, and the first and the last client start and stop the
\* streams of the device.
NextStreams ==
    \/ deviceCall("t1", "initialize")
    \/ initialize("t1", "None")
    \/ setMockMode(TRUE)
    \/ setKinectDevice
    \/ start
    \/ \E t \in Threads : onConnection(t)
    \/ \E t \in Threads : sendHello(t)
    \/ \E t \in Threads : onClose(t)
    \/ \E t \in Threads : startStreams(t, "none")
    \/ \E t \in Threads : startStreams_thread(t)
    \/ \E t \in Threads : stopStreams(t)
    \/ \E t \in Threads : stopStreams_join(t)
    \/ eventLoop

SpecStreams == Init /\ [][NextStreams]_vars

\* ---------------------------------------------------- the motor specification
\* The bridge with a device: two connections stay open and send the four motor
\* messages while time passes, by half a rate-limit window or by a millisecond less
\* than a whole one, for MaxWindows windows; the motor functions of the device fail
\* or not.
NextMotor ==
    \/ deviceCall("t1", "initialize")
    \/ initialize("t1", "None")
    \/ setKinectDevice
    \/ start
    \/ \E t \in Threads : onConnection(t)
    \/ \E t \in Threads : sendHello(t)
    \/ \E t \in Threads : startStreams(t, "none")
    \/ \E t \in Threads : startStreams_thread(t)
    \/ \E t \in Threads : handleMotorSetTilt(t)
    \/ \E t \in Threads : handleMotorReset(t)
    \/ \E t \in Threads : \E state \in {"green", "purple"} : handleMotorSetLed(t, state)
    \/ \E t \in Threads : handleMotorGetStatus(t)
    \/ \E t \in Threads : handleMotor_control(t)
    \/ \E t \in Threads : handleMotor_status(t)
    \/ \E t \in Threads : \E failed \in BOOLEAN : motorControl(t, failed)
    \/ \E ms \in {rate_limit_ms \div 2, rate_limit_ms - 1} :
          Elapse(ms, 1 + MaxWindows * rate_limit_ms)

SpecMotor == Init /\ [][NextMotor]_vars

\* --------------------------------------------------- the header specification
\* broadcastFrame on frame ids with every pattern of low, middle and high bytes.  The
\* server has its device, client t1 has connected, started the streams and subscribed
\* to both; depth and video frames have come in, FrameIds of them depth frames, and the
\* broadcast thread has taken its copies and is about to send them.
ByteSamples == {0, 1, 255}

FrameIds ==
    {a + 256 * b + 65536 * c + 16777216 * d :
       a \in ByteSamples, b \in ByteSamples, c \in ByteSamples, d \in {0, 1, 127}} \ {0}

InitHeader ==
    /\ Constructed
    /\ ret = [t \in Threads |-> IF t = "t1"
                                THEN [NoReturn EXCEPT !.op = "startStreams", !.res = "None"]
                                ELSE NoReturn]
    /\ pump = [NoPump EXCEPT !.pc = "events"]
    /\ device = [initialized_ |-> TRUE, streaming_ |-> TRUE, eventThreadRunning_ |-> TRUE,
                 eventThread_ |-> 1, cache |-> "frameCache_"]
    /\ server = [BridgeServer EXCEPT !.running_ = TRUE, !.kinectDevice_ = "device"]
    /\ clients_ = ("t1" :> [subscribedRgb |-> TRUE, subscribedDepth |-> TRUE])
    /\ conn = [t \in Threads |-> IF t = "t1" THEN "open" ELSE "closed"]
    /\ hSent = [t \in Threads |-> IF t = "t1" THEN Sent(NoLog, Message("hello", "", 0))
                                  ELSE NoLog]
    /\ \E frameId \in FrameIds :
          /\ frameCache =
               [c \in {"frameCache", "frameCache_"} |->
                  IF c = "frameCache" THEN BridgeFrameCache
                  ELSE [rgb |-> [data |-> <<1, 1>>, timestamp |-> 1, valid |-> TRUE],
                        depth |-> [data |-> <<1, 1>>, timestamp |-> 1, valid |-> TRUE],
                        frameId |-> frameId]]
          /\ broadcaster =
               [NoBroadcast EXCEPT !.pc = "rgb", !.now = clock, !.nextFrameTime = clock,
                                   !.frameId = frameId,
                                   !.data = [s \in Streams |-> <<1, 1>>],
                                   !.has = [s \in Streams |-> TRUE]]

NextHeader == \E stream \in Streams : broadcastFrame(stream)

SpecHeader == InitHeader /\ [][NextHeader]_vars

\* --------------------------------------------------- the pacing specification
\* The broadcast thread of a server in mock mode without clients, while time passes by
\* a frame period or by a stall of MaxStall milliseconds, at any place of its loop,
\* for two stalls' time.
NextPacing ==
    \/ setMockMode(TRUE)
    \/ start
    \/ broadcastLoop
    \/ broadcastLoop_copy
    \/ \E stream \in Streams : broadcastFrame(stream)
    \/ \E ms \in {FRAME_INTERVAL_MS, MaxStall} : Elapse(ms, 1 + 2 * MaxStall)

SpecPacing == Init /\ [][NextPacing]_vars

\* ------------------------------------------------ the end-of-session specification
\* The device of a session from beginSession to endSession, again and again: thread t1
\* initializes it, registers the callbacks of the session, starts the streams and ends
\* the session, thread t2 copies frames out of the cache of the session, the event
\* thread runs and frames arrive.  Every thread that can take a step is scheduled in
\* the end, and a call of freenect_process_events comes back however many frames
\* arrive in it.
NextEndSession ==
    \/ \E fn \in {"initialize", "startStreams"} : deviceCall("t1", fn)
    \/ initialize("t1", "None")
    \/ setDepthCallback
    \/ startStreams("t1", "none")
    \/ startStreams_thread("t1")
    \/ endSession_stopStreams("t1")
    \/ stopStreams("t1")
    \/ stopStreams_join("t1")
    \/ endSession_reset("t1")
    \/ eventLoop
    \/ \E stream \in Streams : \E timestamp \in 1..MaxTimestamp :
          frameCallback(stream, timestamp)
    \/ frameCallback_copy
    \/ \E stream \in Streams : uploadTexture("t2", stream)
    \/ uploadTexture_copy("t2")

SpecEndSession ==
    /\ Init
    /\ [][NextEndSession]_vars
    /\ SF_vars(eventLoop)
    /\ WF_vars(frameCallback_copy)
    /\ WF_vars(uploadTexture_copy("t2"))
    /\ WF_vars(stopStreams("t1"))
    /\ WF_vars(stopStreams_join("t1"))
    /\ WF_vars(endSession_reset("t1"))

\* ----------------------------------------------- the destroy-race specification
\* Thread "t1" sets up a session, begins and ends it, creates a swapchain on it,
\* acquires an image and waits on it; thread "t2" destroys the session; the event
\* thread of the device fills the frame cache.  createSwapchain and waitSwapchainImage
\* are taken at the grain of the pointer getSessionData answers.
NextDestroyRace ==
    \/ SetupCall("t1")
    \/ SetupStep("t1")
    \/ \E s \in DOMAIN sessions_ : endSession("t1", s)
    \/ endSession_queue("t1")
    \/ DeviceThread
    \/ /\ nextSwapchainId_ <= MaxSwapchains
       /\ \E s \in DOMAIN sessions_ :
             createSwapchain("t1", s, FormatBGRA8Unorm, "COLOR", KinectWidth)
    \/ createSwapchain_id("t1")
    \/ createSwapchain_getSessionData("t1")
    \/ createSwapchain_textures("t1")
    \/ \E c \in DOMAIN swapchains_ :
          \/ Len(hAcquired[c]) < MaxAcquires /\ acquireSwapchainImage("t1", c)
          \/ waitSwapchainImage("t1", c)
    \/ waitSwapchainImage_getSessionData("t1")
    \/ waitSwapchainImage_uploadTexture("t1")
    \/ \E s \in DOMAIN sessions_ : destroySession("t2", s)

SpecDestroyRace == Init /\ [][NextDestroyRace]_vars

\* =================================================================== claims
LifecycleStates ==
    <<"XR_SESSION_STATE_READY", "XR_SESSION_STATE_SYNCHRONIZED", "XR_SESSION_STATE_VISIBLE",
      "XR_SESSION_STATE_FOCUSED", "XR_SESSION_STATE_STOPPING", "XR_SESSION_STATE_IDLE">>

\* C1: on an instance with a system and an available device, createSession,
\* beginSession(PRIMARY_MONO), endSession and destroySession each return XR_SUCCESS, the
\* instance's queue has then received exactly the six events READY, SYNCHRONIZED,
\* VISIBLE, FOCUSED, STOPPING, IDLE of that session in this order, the next six pollEvent
\* calls return them in this order and the seventh returns XR_EVENT_UNAVAILABLE.
C1_LifecycleEvents ==
    LET k == hScript.k
        r == ret["t1"] IN
    /\ k \in 3..12 => r.res = "XR_SUCCESS"
    /\ k = 3 => r.out = hScript.s /\ hScript.s \in DOMAIN sessions_
    /\ k \in 6..13 =>
          hEnqueued[hScript.i] =
              [j \in 1..6 |-> [session |-> hScript.s, state |-> LifecycleStates[j]]]
    /\ k \in 7..12 => r.ev = [session |-> hScript.s, state |-> LifecycleStates[k - 6]]
    /\ k = 13 => r.res = "XR_EVENT_UNAVAILABLE" /\ instances_[hScript.i].eventQueue = <<>>

\* The life cycle has been run to its end: the seventh pollEvent has returned.
C1_Witness ==
    /\ hScript.k = 13
    /\ ret["t1"].op = "pollEvent"
    /\ Len(hPolled[hScript.i]) = 6

\* C2: endSession on a session that is not SYNCHRONIZED, VISIBLE or FOCUSED returns
\* XR_ERROR_SESSION_NOT_RUNNING at once, changes no session and enqueues no event.
C2_EndSessionOnlyFromRunning ==
    [][\A s \in SessionIds :
          (/\ endSession("t1", s)
           /\ s \in DOMAIN sessions_
           /\ sessions_[s].state \notin RunningStates)
          => (/\ pc'["t1"] = "idle"
              /\ ret'["t1"].res = "XR_ERROR_SESSION_NOT_RUNNING"
              /\ sessions_' = sessions_
              /\ instances_' = instances_)]_vars

\* endSession has returned XR_SUCCESS on a session that was never begun: READY is the
\* only event of the session before its STOPPING.
C2_Witness ==
    \E i \in DOMAIN instances_ : \E s \in SessionIds :
        /\ ret["t1"].op = "endSession" /\ ret["t1"].a = s /\ ret["t1"].res = "XR_SUCCESS"
        /\ hEnqueued[i] = [j \in 1..3 |-> [session |-> s, state |->
               <<"XR_SESSION_STATE_READY", "XR_SESSION_STATE_STOPPING",
                 "XR_SESSION_STATE_IDLE">>[j]]]

\* C3: beginSession(PRIMARY_MONO) on a live session that is not READY returns
\* XR_ERROR_SESSION_NOT_READY and leaves the session (state, device) and every event
\* queue as they were.
C3_BeginSessionNotReady ==
    [][\A s \in SessionIds :
          (/\ beginSession("t1", s, "PRIMARY_MONO")
           /\ s \in DOMAIN sessions_
           /\ sessions_[s].state # "READY")
          => (/\ pc'["t1"] = "idle"
              /\ ret'["t1"].res = "XR_ERROR_SESSION_NOT_READY"
              /\ sessions_' = sessions_
              /\ instances_' = instances_)]_vars

\* beginSession has returned XR_ERROR_SESSION_NOT_READY on a session that is FOCUSED.
C3_Witness ==
    /\ ret["t1"].op = "beginSession"
    /\ ret["t1"].res = "XR_ERROR_SESSION_NOT_READY"
    /\ ret["t1"].a \in DOMAIN sessions_
    /\ sessions_[ret["t1"].a].state = "FOCUSED"

\* C4: destroySession on a live session that is SYNCHRONIZED, VISIBLE or FOCUSED returns
\* XR_ERROR_SESSION_RUNNING and the session stays in the table; in every other state it
\* returns XR_SUCCESS and the handle is in the table no more.
C4_DestroySession ==
    [][\A s \in SessionIds :
          (destroySession("t1", s) /\ s \in DOMAIN sessions_)
          => /\ pc'["t1"] = "idle"
             /\ IF sessions_[s].state \in RunningStates
                THEN /\ ret'["t1"].res = "XR_ERROR_SESSION_RUNNING"
                     /\ sessions_' = sessions_
                ELSE /\ ret'["t1"].res = "XR_SUCCESS"
                     /\ s \notin DOMAIN sessions_'
                     /\ sessions_' = Erase(sessions_, s)]_vars

\* destroySession has returned XR_ERROR_SESSION_RUNNING and the session is still there.
C4_Witness ==
    /\ ret["t1"].op = "destroySession"
    /\ ret["t1"].res = "XR_ERROR_SESSION_RUNNING"
    /\ ret["t1"].a \in DOMAIN sessions_
    /\ sessions_[ret["t1"].a].state \in RunningStates

\* C5: the events pollEvent has handed out on an instance, followed by those still
\* queued, are the events enqueued on it, in enqueue order (so each is handed out once,
\* in that order); pollEvent on an empty queue returns XR_EVENT_UNAVAILABLE and the
\* queue stays empty.
C5_PollEventFifo ==
    /\ [](\A i \in DOMAIN instances_ :
            hEnqueued[i] = hPolled[i] \o instances_[i].eventQueue)
    /\ [][\A i \in InstanceIds :
            (/\ pollEvent("t1", i)
             /\ i \in DOMAIN instances_
             /\ instances_[i].eventQueue = <<>>)
            => (/\ ret'["t1"].res = "XR_EVENT_UNAVAILABLE"
                /\ instances_'[i].eventQueue = <<>>
                /\ hPolled' = hPolled)]_vars

\* pollEvent has handed out two events while a third is still queued.
C5_Witness ==
    \E i \in DOMAIN instances_ :
        /\ Len(hPolled[i]) >= 2
        /\ instances_[i].eventQueue # <<>>
        /\ ret["t1"].op = "pollEvent"
        /\ ret["t1"].ev = hPolled[i][Len(hPolled[i])]

\* C6: while a session of instance I is live, a createSession on I that has passed the
\* argument checks returns XR_ERROR_LIMIT_REACHED and creates nothing; when no session
\* of I is live (none yet, or it has been destroyed), it goes on, returns XR_SUCCESS and
\* the new session is in the table with I as its instance.
C6_OneSessionPerInstance ==
    [][/\ createSession_limit("t1") =>
            IF \E s \in DOMAIN sessions_ : sessions_[s].instance = frame["t1"].a
            THEN /\ pc'["t1"] = "idle"
                 /\ ret'["t1"].res = "XR_ERROR_LIMIT_REACHED"
                 /\ sessions_' = sessions_
                 /\ nextSessionId_' = nextSessionId_
                 /\ instances_' = instances_
            ELSE pc'["t1"] = "createSession_insert"
       /\ createSession_queue("t1") =>
            /\ ret'["t1"].res = "XR_SUCCESS"
            /\ ret'["t1"].out \in DOMAIN sessions_'
            /\ sessions_'[ret'["t1"].out].instance = frame["t1"].a]_vars

\* createSession has returned XR_ERROR_LIMIT_REACHED on an instance whose second
\* session is live: its first was destroyed and createSession succeeded again.
C6_Witness ==
    /\ ret["t1"].op = "createSession"
    /\ ret["t1"].res = "XR_ERROR_LIMIT_REACHED"
    /\ 1 \notin DOMAIN sessions_
    /\ 2 \in DOMAIN sessions_
    /\ sessions_[2].instance = ret["t1"].a

\* C7: at most one live session has a given live instance as its parent, in every
\* state, also while two threads are inside createSession on that instance.
C7_OneLiveSessionPerInstance ==
    \A i \in DOMAIN instances_ :
        Cardinality({s \in DOMAIN sessions_ : sessions_[s].instance = i}) <= 1

\* Both threads have returned XR_SUCCESS from createSession on the same instance.
C7_Witness ==
    /\ \A t \in Threads : ret[t].op = "createSession" /\ ret[t].res = "XR_SUCCESS"
    /\ ret["t1"].a = ret["t2"].a
    /\ ret["t1"].out # ret["t2"].out
    /\ {ret["t1"].out, ret["t2"].out} \subseteq DOMAIN sessions_

\* C8: no two threads ever wait for each other's mutex: there is no state in which
\* each of them holds the table mutex the other one is waiting to take.
C8_NoDeadlock ==
    ~ \E t \in Threads : \E u \in Threads \ {t} :
          /\ Wants(t) # "none"
          /\ Wants(u) # "none"
          /\ mutex[Wants(t)] = u
          /\ mutex[Wants(u)] = t

\* endFrame with the depth info of one swapchain holds sessionMutex_ and waits for
\* swapchainMutex_, waitSwapchainImage on another swapchain holds swapchainMutex_ and
\* waits for sessionMutex_.
C8_Witness ==
    /\ pc["t1"] = "endFrame_depth"
    /\ pc["t2"] = "waitSwapchainImage_upload"
    /\ Holds("t1", "sessionMutex_")
    /\ Holds("t2", "swapchainMutex_")
    /\ frame["t1"].n \in DOMAIN swapchains_
    /\ frame["t2"].a \in DOMAIN swapchains_
    /\ frame["t1"].n # frame["t2"].a

\* C9: while a thread sleeps inside waitFrame on session A, no other thread is waiting
\* at the lock for a frame call on a different session B.
C9_NoCrossSessionWait ==
    \A t \in Threads : \A u \in Threads \ {t} :
        ~ (/\ pc[t] = "waitFrame_sleep"
           /\ clock < frame[t].h
           /\ pc[u] = "blocked"
           /\ frame[u].op \in {"waitFrame", "beginFrame", "endFrame"}
           /\ frame[u].a # frame[t].a)

\* Thread "t1" sleeps in waitFrame on its session with the whole frame period ahead,
\* thread "t2" waits at sessionMutex_ with beginFrame on its own, running, session.
C9_Witness ==
    /\ pc["t1"] = "waitFrame_sleep"
    /\ frame["t1"].h = clock + TargetFrameTime
    /\ pc["t2"] = "blocked"
    /\ frame["t2"].op = "beginFrame"
    /\ frame["t2"].a \in Mine("t2")
    /\ frame["t1"].a \in Mine("t1")
    /\ sessions_[frame["t2"].a].state = "FOCUSED"

\* C10: on every swapchain the k-th successful acquireSwapchainImage (k = 0, 1, ...)
\* has returned k mod 3, and currentImageIndex is the number of successful acquires
\* mod 3: it moves once with each of them and with nothing else (wait, release, failed
\* calls).
C10_AcquireIndexCycle ==
    \A c \in DOMAIN swapchains_ :
        /\ \A k \in 1..Len(hAcquired[c]) : hAcquired[c][k] = (k - 1) % 3
        /\ swapchains_[c].currentImageIndex = Len(hAcquired[c]) % 3

\* The fourth acquire has returned 0 again, and wait and release have followed it.
C10_Witness ==
    \E c \in DOMAIN swapchains_ :
        /\ Len(hAcquired[c]) = 4
        /\ hAcquired[c][4] = 0
        /\ ~swapchains_[c].imageAcquired
        /\ swapchains_[c].uploaded = 1
        /\ ret["t1"].op = "releaseSwapchainImage"
        /\ ret["t1"].res = "XR_SUCCESS"

\* C11: on a live swapchain acquireSwapchainImage succeeds iff no image is acquired,
\* waitSwapchainImage and releaseSwapchainImage succeed iff one is; in the opposite case
\* each returns XR_ERROR_CALL_ORDER_INVALID and changes nothing.  So the successful
\* acquires are at most one ahead of the successful releases, and imageAcquired is TRUE
\* exactly when they are.
C11_AcquireWaitRelease ==
    /\ [](\A c \in DOMAIN swapchains_ :
            /\ Len(hAcquired[c]) - hReleased[c] \in {0, 1}
            /\ swapchains_[c].imageAcquired = (Len(hAcquired[c]) - hReleased[c] = 1))
    /\ [][\A c \in DOMAIN swapchains_ :
            LET acquired == swapchains_[c].imageAcquired IN
            /\ acquireSwapchainImage("t1", c) =>
                  IF acquired
                  THEN /\ ret'["t1"].res = "XR_ERROR_CALL_ORDER_INVALID"
                       /\ swapchains_' = swapchains_
                  ELSE /\ ret'["t1"].res = "XR_SUCCESS"
                       /\ swapchains_'[c].imageAcquired
            /\ waitSwapchainImage("t1", c) =>
                  IF acquired
                  THEN pc'["t1"] = "waitSwapchainImage_upload"
                  ELSE /\ ret'["t1"].res = "XR_ERROR_CALL_ORDER_INVALID"
                       /\ swapchains_' = swapchains_
            /\ (waitSwapchainImage_upload("t1") /\ frame["t1"].a = c) =>
                  /\ ret'["t1"].res = "XR_SUCCESS"
                  /\ swapchains_'[c].imageAcquired
            /\ releaseSwapchainImage("t1", c) =>
                  IF acquired
                  THEN /\ ret'["t1"].res = "XR_SUCCESS"
                       /\ ~swapchains_'[c].imageAcquired
                  ELSE /\ ret'["t1"].res = "XR_ERROR_CALL_ORDER_INVALID"
                       /\ swapchains_' = swapchains_]_vars

\* A second acquire has been refused with one image outstanding, after a full acquire,
\* wait, release round.
C11_Witness ==
    \E c \in DOMAIN swapchains_ :
        /\ ret["t1"].op = "acquireSwapchainImage"
        /\ ret["t1"].a = c
        /\ ret["t1"].res = "XR_ERROR_CALL_ORDER_INVALID"
        /\ swapchains_[c].imageAcquired
        /\ Len(hAcquired[c]) = 2
        /\ hReleased[c] = 1

\* C12: when waitSwapchainImage uploads a texture, the slot it writes is the slot whose
\* index the outstanding acquireSwapchainImage on that swapchain returned.
C12_UploadWritesAcquiredSlot ==
    [][\A c \in DOMAIN swapchains_ :
          (/\ waitSwapchainImage_upload("t1")
           /\ frame["t1"].a = c
           /\ swapchains_[c].session \in DOMAIN sessions_
           /\ uploads(sessions_[swapchains_[c].session], swapchains_[c]))
          => swapchains_'[c].uploaded = hAcquired[c][Len(hAcquired[c])]]_vars

\* The first acquire has returned slot 0 and is outstanding; the wait that followed has
\* written slot 1.
C12_Witness ==
    \E c \in DOMAIN swapchains_ :
        /\ hAcquired[c] = <<0>>
        /\ swapchains_[c].imageAcquired
        /\ swapchains_[c].uploaded = 1
        /\ ret["t1"].op = "waitSwapchainImage"
        /\ ret["t1"].res = "XR_SUCCESS"

\* C13: on a running session beginFrame succeeds iff no frame is in progress, whether
\* waitFrame has been called or not, and sets frameInProgress; with a frame in progress
\* it returns XR_ERROR_CALL_ORDER_INVALID; endFrame with no frame in progress returns
\* XR_ERROR_CALL_ORDER_INVALID; a successful endFrame had a frame in progress and clears
\* it; a new session has none and no other call changes frameInProgress.  So successful
\* beginFrame and endFrame alternate, beginFrame first.
C13_BeginEndAlternate ==
    [][/\ \A s \in DOMAIN sessions_ :
            LET inProgress == sessions_[s].frameState.frameInProgress
                running == sessions_[s].state \in RunningStates IN
            /\ (beginFrame("t1", s) /\ running) =>
                  IF inProgress
                  THEN /\ ret'["t1"].res = "XR_ERROR_CALL_ORDER_INVALID"
                       /\ sessions_' = sessions_
                  ELSE /\ ret'["t1"].res = "XR_SUCCESS"
                       /\ sessions_'[s].frameState.frameInProgress
            /\ \A blendMode \in BlendModes : \A layers \in LayerKinds :
               \A c \in 1..MaxSwapchains :
                  endFrame("t1", s, blendMode, layers, c) =>
                     /\ (running /\ ~inProgress) =>
                           /\ pc'["t1"] = "idle"
                           /\ ret'["t1"].res = "XR_ERROR_CALL_ORDER_INVALID"
                           /\ sessions_' = sessions_
                     /\ (pc'["t1"] = "idle" /\ ret'["t1"].res = "XR_SUCCESS") =>
                           (inProgress /\ ~sessions_'[s].frameState.frameInProgress)
            /\ (/\ endFrame_depth("t1")
                /\ frame["t1"].a = s
                /\ ret'["t1"].res = "XR_SUCCESS")
               => (inProgress /\ ~sessions_'[s].frameState.frameInProgress)
            /\ (/\ s \in DOMAIN sessions_'
                /\ sessions_'[s].frameState.frameInProgress # inProgress)
               => (/\ pc'["t1"] = "idle"
                   /\ ret'["t1"].a = s
                   /\ ret'["t1"].res = "XR_SUCCESS"
                   /\ ret'["t1"].op = IF inProgress THEN "endFrame" ELSE "beginFrame")
       /\ \A s \in DOMAIN sessions_' \ DOMAIN sessions_ :
            ~sessions_'[s].frameState.frameInProgress]_vars

\* endFrame has succeeded on a session on which waitFrame was never called: a
\* beginFrame had succeeded before it.
C13_Witness ==
    \E s \in DOMAIN sessions_ :
        /\ ret["t1"].op = "endFrame" /\ ret["t1"].a = s /\ ret["t1"].res = "XR_SUCCESS"
        /\ ~sessions_[s].frameState.frameInProgress
        /\ sessions_[s].frameState.frameCount = 0
        /\ sessions_[s].state \in RunningStates

\* C14: on a live session that is not SYNCHRONIZED, VISIBLE or FOCUSED, waitFrame,
\* beginFrame and endFrame (with any arguments) return XR_ERROR_SESSION_NOT_RUNNING and
\* leave frameInProgress, frameCount and lastFrameTime, and every session, as they were.
C14_FrameCallsNotRunning ==
    [][\A s \in DOMAIN sessions_ :
          (/\ sessions_[s].state \notin RunningStates
           /\ \/ waitFrame("t1", s)
              \/ beginFrame("t1", s)
              \/ \E blendMode \in BlendModes : \E layers \in LayerKinds :
                 \E c \in 1..MaxSwapchains : endFrame("t1", s, blendMode, layers, c))
          => (/\ pc'["t1"] = "idle"
              /\ ret'["t1"].res = "XR_ERROR_SESSION_NOT_RUNNING"
              /\ sessions_'[s].frameState = sessions_[s].frameState
              /\ sessions_' = sessions_)]_vars

\* waitFrame has returned XR_ERROR_SESSION_NOT_RUNNING on a session that was ended with
\* a frame in progress and one frame counted.
C14_Witness ==
    \E s \in DOMAIN sessions_ :
        /\ ret["t1"].op = "waitFrame" /\ ret["t1"].a = s
        /\ ret["t1"].res = "XR_ERROR_SESSION_NOT_RUNNING"
        /\ sessions_[s].state = "IDLE"
        /\ sessions_[s].frameState.frameInProgress
        /\ sessions_[s].frameState.frameCount = 1

\* C15: an endFrame on a running session with a frame in progress that fails (blend mode
\* not opaque: XR_ERROR_ENVIRONMENT_BLEND_MODE_UNSUPPORTED; layerCount > 0 and no layers:
\* XR_ERROR_VALIDATION_FAILURE; depth info with a swapchain that is not live, not R16Uint
\* or not 640x480) leaves the frame in progress and every session as it was; an endFrame
\* with the opaque blend mode and no depth info then succeeds and clears frameInProgress.
C15_EndFrameErrorKeepsFrame ==
    [][\A s \in DOMAIN sessions_ :
          (sessions_[s].state \in RunningStates /\ sessions_[s].frameState.frameInProgress)
          => /\ \A blendMode \in BlendModes : \A layers \in LayerKinds :
                \A c \in 1..MaxSwapchains :
                   endFrame("t1", s, blendMode, layers, c) =>
                      IF blendMode # "OPAQUE"
                      THEN /\ pc'["t1"] = "idle"
                           /\ ret'["t1"].res = "XR_ERROR_ENVIRONMENT_BLEND_MODE_UNSUPPORTED"
                           /\ sessions_' = sessions_
                      ELSE IF layers = "NULL_LAYERS"
                      THEN /\ pc'["t1"] = "idle"
                           /\ ret'["t1"].res = "XR_ERROR_VALIDATION_FAILURE"
                           /\ sessions_' = sessions_
                      ELSE IF layers = "PROJECTION_DEPTH"
                      THEN /\ pc'["t1"] = "endFrame_depth"
                           /\ sessions_' = sessions_
                      ELSE /\ pc'["t1"] = "idle"
                           /\ ret'["t1"].res = "XR_SUCCESS"
                           /\ ~sessions_'[s].frameState.frameInProgress
             /\ (endFrame_depth("t1") /\ frame["t1"].a = s) =>
                   LET c == frame["t1"].n
                       valid == c \in DOMAIN swapchains_ IN
                   IF valid /\ swapchains_[c].format = FormatR16Uint
                         /\ swapchains_[c].width = KinectWidth
                         /\ swapchains_[c].height = KinectHeight
                   THEN /\ ret'["t1"].res = "XR_SUCCESS"
                        /\ ~sessions_'[s].frameState.frameInProgress
                   ELSE /\ ret'["t1"].res =
                             IF ~valid THEN "XR_ERROR_HANDLE_INVALID"
                             ELSE IF swapchains_[c].format # FormatR16Uint
                             THEN "XR_ERROR_SWAPCHAIN_FORMAT_UNSUPPORTED"
                             ELSE "XR_ERROR_VALIDATION_FAILURE"
                        /\ sessions_' = sessions_]_vars

\* endFrame has failed on a depth swapchain that is R16Uint but not 640 wide, and the
\* frame is still in progress.
C15_Witness ==
    \E s \in DOMAIN sessions_ : \E c \in DOMAIN swapchains_ :
        /\ ret["t1"].op = "endFrame" /\ ret["t1"].a = s
        /\ ret["t1"].res = "XR_ERROR_VALIDATION_FAILURE"
        /\ swapchains_[c].format = FormatR16Uint
        /\ swapchains_[c].width # KinectWidth
        /\ sessions_[s].frameState.frameInProgress
        /\ sessions_[s].state \in RunningStates

C18_HandlesNeverReused ==
    \A k \in Tables :
        LET created == hHandles.created[k] IN
        /\ created # <<>> => created[1] = 1
        /\ \A j \in 1..Len(created) : \A l \in 1..Len(created) :
              j < l => created[j] < created[l]
        /\ Live(k) \subseteq Created(k)
        /\ 0 \notin Live(k)

\* In every table handle 1 has been destroyed and handle 2 created after it.
C18_Witness ==
    \A k \in Tables :
        /\ hHandles.created[k] = <<1, 2>>
        /\ 1 \in hHandles.destroyed[k]
        /\ Live(k) = {2}

\* C20: a successful destroyInstance erases that instance, with its system and event
\* queue, from the instance table and nothing else: the other instances and every
\* session, space and swapchain, those rooted at the instance included, keep their table
\* entries unchanged and stay valid handles.
C20_DestroyInstanceOrphans ==
    [][\A i \in DOMAIN instances_ :
          destroyInstance("t1", i)
          => (/\ ret'["t1"].res = "XR_SUCCESS"
              /\ instances_' = Erase(instances_, i)
              /\ i \notin DOMAIN instances_'
              /\ UNCHANGED <<sessions_, spaces_, swapchains_>>
              /\ \A s \in DOMAIN sessions_ : sessions_[s].instance = i => s \in DOMAIN sessions_')]_vars

\* An instance has just been destroyed; its session, with a space and a swapchain, is
\* still in the tables.
C20_Witness ==
    \E s \in DOMAIN sessions_ :
        /\ ret["t1"].op = "destroyInstance" /\ ret["t1"].res = "XR_SUCCESS"
        /\ sessions_[s].instance = ret["t1"].a
        /\ sessions_[s].instance \notin DOMAIN instances_
        /\ \E space \in DOMAIN spaces_ : spaces_[space].session = s
        /\ \E c \in DOMAIN swapchains_ : swapchains_[c].session = s

\* C19: getSystem with the head-mounted-display form factor succeeds on a live instance
\* and returns the instance's system id: the first call mints it, every later call
\* returns the same id and changes nothing, so the system of an instance, once there,
\* never changes; with another form factor getSystem returns
\* XR_ERROR_FORM_FACTOR_UNSUPPORTED and mints nothing.
C19_GetSystemIdempotent ==
    [][\A i \in DOMAIN instances_ :
          LET system == instances_[i].system IN
          /\ getSystem("t1", i, "HEAD_MOUNTED_DISPLAY") =>
                /\ ret'["t1"].res = "XR_SUCCESS"
                /\ ret'["t1"].out = instances_'[i].system
                /\ ret'["t1"].out # 0
                /\ IF system = 0
                   THEN ret'["t1"].out = nextSystemId_ /\ nextSystemId_' = nextSystemId_ + 1
                   ELSE /\ ret'["t1"].out = system
                        /\ UNCHANGED <<instances_, nextSystemId_>>
          /\ getSystem("t1", i, "HANDHELD_DISPLAY") =>
                /\ ret'["t1"].res = "XR_ERROR_FORM_FACTOR_UNSUPPORTED"
                /\ UNCHANGED <<instances_, nextSystemId_>>
          /\ (system # 0 /\ i \in DOMAIN instances_') => instances_'[i].system = system]_vars

\* getSystem has returned the system id again on an instance that has a session, which
\* was created with that id.
C19_Witness ==
    \E s \in DOMAIN sessions_ :
        LET i == sessions_[s].instance IN
        /\ i \in DOMAIN instances_
        /\ ret["t1"].op = "getSystem" /\ ret["t1"].a = i /\ ret["t1"].res = "XR_SUCCESS"
        /\ ret["t1"].out = sessions_[s].systemId
        /\ ret["t1"].out = instances_[i].system
        /\ nextSystemId_ = ret["t1"].out + 1

\* The instance a live space / swapchain is rooted at: the instance of its session, 0
\* when the session is gone.
RootOf(session) == IF session \in DOMAIN sessions_ THEN sessions_[session].instance ELSE 0

\* C17: what was minted under instance A is refused by a call scoped to another
\* instance B: createSession on B with the system id of A returns
\* XR_ERROR_SYSTEM_INVALID; locateViews on a session of B does not succeed with a space
\* whose session belongs to A, nor endFrame on a session of B with a depth swapchain
\* whose session belongs to A.
C17_NoCrossInstanceUse ==
    [][/\ \A b \in DOMAIN instances_ : \A a \in DOMAIN instances_ \ {b} :
            (instances_[a].system # 0
             /\ createSession("t1", b, instances_[a].system, "metalBinding"))
            => (pc'["t1"] = "idle" /\ ret'["t1"].res = "XR_ERROR_SYSTEM_INVALID")
       /\ (/\ locateViews_space("t1")
           /\ frame["t1"].n \in DOMAIN spaces_
           /\ RootOf(spaces_[frame["t1"].n].session) # RootOf(frame["t1"].a))
          => ret'["t1"].res # "XR_SUCCESS"
       /\ (/\ endFrame_depth("t1")
           /\ frame["t1"].n \in DOMAIN swapchains_
           /\ RootOf(swapchains_[frame["t1"].n].session) # RootOf(frame["t1"].a))
          => ret'["t1"].res # "XR_SUCCESS"]_vars

\* endFrame has succeeded on a session of one instance with the depth swapchain of the
\* session of the other instance, the only swapchain there is.
C17_Witness ==
    \E s \in DOMAIN sessions_ :
        /\ ret["t1"].op = "endFrame" /\ ret["t1"].a = s /\ ret["t1"].res = "XR_SUCCESS"
        /\ hHandles.created["swapchain"] = <<1>>
        /\ 1 \in DOMAIN swapchains_
        /\ RootOf(swapchains_[1].session) # RootOf(s)
        /\ RootOf(swapchains_[1].session) \in DOMAIN instances_
        /\ RootOf(s) \in DOMAIN instances_

\* ---------------------------------------------------------------------- C21
\* The chain named b holds a Metal binding, whatever comes before it, and the first
\* one it holds has a command queue.
UsableBinding(b) ==
    \E j \in 1..Len(NextChains[b]) :
       /\ NextChains[b][j].type = "XR_TYPE_GRAPHICS_BINDING_METAL_KHR"
       /\ NextChains[b][j].commandQueue # "null"
       /\ \A k \in 1..(j - 1) :
             NextChains[b][k].type # "XR_TYPE_GRAPHICS_BINDING_METAL_KHR"

\* C21: a createSession that returns an error (invalid instance, a system id that is
\* not the instance's, no Metal binding in the next chain, a null command queue, one
\* session already on the instance) adds no session and enqueues no event; the checks
\* pass exactly when the instance is live, the system id is its system and the chain
\* holds a Metal binding with a command queue at any position, unknown structures
\* being skipped; a createSession that succeeds adds one session, in state READY, and
\* enqueues exactly one READY event for it, on the queue of its instance.
C21_CreateSessionEffect ==
    [][/\ \A i \in 1..MaxInstances + 1 : \A sys \in 1..MaxInstances + 1 :
          \A b \in DOMAIN NextChains :
             createSession("t1", i, sys, b)
             => /\ UNCHANGED <<sessions_, instances_, hEnqueued>>
                /\ IF i \in DOMAIN instances_ /\ instances_[i].system = sys
                      /\ sys # 0 /\ UsableBinding(b)
                   THEN pc'["t1"] = "createSession_limit"
                   ELSE /\ pc'["t1"] = "idle"
                        /\ ret'["t1"].res
                              = (IF i \notin DOMAIN instances_
                                 THEN "XR_ERROR_HANDLE_INVALID"
                                 ELSE IF instances_[i].system # sys
                                 THEN "XR_ERROR_SYSTEM_INVALID"
                                 ELSE "XR_ERROR_GRAPHICS_DEVICE_INVALID")
       /\ createSession_limit("t1")
          => /\ UNCHANGED <<sessions_, instances_, hEnqueued>>
             /\ IF \E s \in DOMAIN sessions_ : sessions_[s].instance = frame["t1"].a
                THEN pc'["t1"] = "idle" /\ ret'["t1"].res = "XR_ERROR_LIMIT_REACHED"
                ELSE pc'["t1"] = "createSession_insert"
       /\ createSession_insert("t1")
          => /\ UNCHANGED <<instances_, hEnqueued>>
             /\ pc'["t1"] = "createSession_queue"
             /\ DOMAIN sessions_' = DOMAIN sessions_ \cup {nextSessionId_}
             /\ nextSessionId_ \notin DOMAIN sessions_
             /\ \A s \in DOMAIN sessions_ : sessions_'[s] = sessions_[s]
       /\ createSession_queue("t1")
          => LET i == frame["t1"].a
                 h == frame["t1"].h
                 ready == [session |-> h, state |-> "XR_SESSION_STATE_READY"] IN
             /\ ret'["t1"].res = "XR_SUCCESS" /\ ret'["t1"].out = h
             /\ DOMAIN sessions_' = DOMAIN sessions_
             /\ sessions_'[h].state = "READY" /\ sessions_'[h].instance = i
             /\ \A s \in DOMAIN sessions_ \ {h} : sessions_'[s] = sessions_[s]
             /\ instances_'[i].eventQueue = Append(instances_[i].eventQueue, ready)
             /\ hEnqueued'[i] = Append(hEnqueued[i], ready)
             /\ \A j \in DOMAIN instances_ \ {i} : instances_'[j] = instances_[j]
      ]_vars

\* A createSession whose Metal binding follows an unknown structure has passed its
\* checks and inserted its session.
C21_Witness ==
    /\ pc["t1"] = "createSession_queue"
    /\ frame["t1"].e = "unknownThenMetal"
    /\ frame["t1"].h \in DOMAIN sessions_

\* ---------------------------------------------------------------------- C22
\* The outcome of the two-call idiom for thread t1, called with capacity k and the
\* array out ("nullptr" or a well-formed array of MaxCapacity blank elements) where
\* the true count is n: capacity 0 is a success that writes n and leaves every
\* element blank; a capacity between 0 and n is SIZE_INSUFFICIENT and writes n; a
\* capacity of n or more with an array is a success that writes n and fills the first
\* n elements and no other.
TwoCallOutcome(k, out, n, blank) ==
    /\ k = 0
       => /\ ret'["t1"].res = "XR_SUCCESS" /\ ret'["t1"].out = n
          /\ buffer'["t1"] = Array(out, blank)
    /\ 0 < k /\ k < n /\ out = "array"
       => ret'["t1"].res = "XR_ERROR_SIZE_INSUFFICIENT" /\ ret'["t1"].out = n
    /\ n <= k /\ out = "array"
       => /\ ret'["t1"].res = "XR_SUCCESS" /\ ret'["t1"].out = n
          /\ \A j \in 1..MaxCapacity : (buffer'["t1"][j] # blank) <=> (j <= n)

Whole(copy, cached) ==
    /\ cached.valid
    /\ copy = cached.data
    /\ copy[1] = copy[2]
    /\ copy[1] = cached.timestamp

C23_NoTornCopy ==
    [][/\ uploadTexture_copy("t1")
            => Whole(buffer'["t1"], frameCache["frameCache"][frame["t1"].e])
       /\ broadcastLoop_copy
            => \A s \in Streams :
                  broadcaster.has[s]
                    => Whole(broadcaster'.data[s], frameCache["frameCache_"][s])]_vars

\* An upload has copied the frame with the last timestamp out of the cache of the
\* session while the event thread stands in a callback, waiting to write or writing the
\* next frame.
C23_Witness ==
    /\ ret["t1"].op = "uploadTexture"
    /\ ret["t1"].res = "true"
    /\ Len(buffer["t1"]) = 2
    /\ buffer["t1"][1] = MaxTimestamp
    /\ pump.pc = "copy"
    /\ device.cache = "frameCache"
    /\ pump.timestamp # MaxTimestamp


\* ---------------------------------------------------------------------- C24
\* C24: a binary frame of a stream type goes to a connection only if the connection is
\* that of a client whose subscription includes the stream at the time of the send.
Subscribed(ws, streamType) ==
    IF ws \notin DOMAIN clients_ THEN FALSE
    ELSE IF streamType = STREAM_TYPE_RGB THEN clients_[ws].subscribedRgb
    ELSE clients_[ws].subscribedDepth

C24_OnlySubscribed ==
    [][\A ws \in Threads : \A streamType \in {STREAM_TYPE_RGB, STREAM_TYPE_DEPTH} :
          hSent'[ws].frames[streamType] > hSent[ws].frames[streamType]
            => Subscribed(ws, streamType)]_vars

\* Two clients are connected; the one subscribed to depth only has received depth
\* frames and no rgb frame, the other one has received rgb frames.
C24_Witness ==
    /\ DOMAIN clients_ = Threads
    /\ clients_["t2"] = [subscribedRgb |-> FALSE, subscribedDepth |-> TRUE]
    /\ hSent["t2"].frames[STREAM_TYPE_DEPTH] > 0
    /\ hSent["t2"].frames[STREAM_TYPE_RGB] = 0
    /\ hSent["t1"].frames[STREAM_TYPE_RGB] > 0


\* ---------------------------------------------------------------------- C25
\* C25: with a device and not in mock mode, whenever no connection or close handler is
\* in the middle of its execution, the device streams if and only if at least one
\* client is connected; in mock mode the streams are never started.
C25_StreamingIffClients ==
    /\ (\A t \in Threads : pc[t] = "idle") /\ server.running_ /\ ~server.mockMode_
       /\ server.kinectDevice_ # "nullptr"
         => (device.streaming_ <=> DOMAIN clients_ # {})
    /\ server.mockMode_ => ~device.streaming_ /\ pump.pc = "none"

\* No handler is running, a client is connected to the server with its device, and
\* the streams are stopped.
C25_Witness ==
    /\ \A t \in Threads : pc[t] = "idle"
    /\ server.running_ /\ ~server.mockMode_ /\ server.kinectDevice_ # "nullptr"
    /\ DOMAIN clients_ # {}
    /\ ~device.streaming_

\* In mock mode neither the streams nor the event thread are ever started.
C25_MockNeverStreams == server.mockMode_ => ~device.streaming_ /\ pump.pc = "none"


\* ---------------------------------------------------------------------- C26
\* C26: after a tilt command (motor.setTilt or motor.reset) has gone on to the device, a
\* tilt command of any connection that arrives less than rate_limit_ms later is answered
\* with motor.error RATE_LIMITED and makes no call of the device, and one that arrives
\* later goes on to setTiltAngle; so any two tilt commands that reach the device were
\* let through at least rate_limit_ms apart.
C26_TiltRateLimit ==
    [][/\ \A t \in Threads :
             (handleMotorSetTilt(t) \/ handleMotorReset(t)) /\ hDriver >= 0
               => IF clock - hDriver < rate_limit_ms
                  THEN /\ hSent'[t].last = Message("motor.error", "RATE_LIMITED", 0)
                       /\ pc'[t] = "idle"
                       /\ hDriver' = hDriver
                  ELSE /\ pc'[t] = "setTiltAngle"
                       /\ hSent'[t] = hSent[t]
                       /\ hDriver' = clock
       /\ hDriver' # hDriver /\ hDriver >= 0 => hDriver' - hDriver >= rate_limit_ms]_vars

\* A second tilt command has gone on to the device, a motor.reset of one connection,
\* which is inside setTiltAngle, while the tilt command of the other connection was
\* turned away.
C26_Witness ==
    /\ pc["t1"] = "setTiltAngle"
    /\ frame["t1"].op = "handleMotorReset"
    /\ hDriver >= 2 * rate_limit_ms
    /\ hSent["t2"].last = Message("motor.error", "RATE_LIMITED", 0)

\* ---------------------------------------------------------------------- C27
\* C27: a motor.setLed or motor.getStatus message that arrives less than rate_limit_ms
\* after a tilt command was let through, and so within the window of the last accepted
\* motor command, is answered with motor.error RATE_LIMITED and makes no call of the
\* device.
C27_SharedWindow ==
    [][\A t \in Threads :
          (handleMotorSetLed(t, "green") \/ handleMotorGetStatus(t))
             /\ hDriver >= 0 /\ clock - hDriver < rate_limit_ms
            => /\ hSent'[t].last = Message("motor.error", "RATE_LIMITED", 0)
               /\ pc'[t] = "idle"]_vars

\* A motor.setLed message is inside setLED of the device less than rate_limit_ms after
\* a tilt command was let through.
C27_Witness ==
    /\ pc["t1"] = "setLED"
    /\ hDriver >= 0
    /\ clock - hDriver < rate_limit_ms


\* ---------------------------------------------------------------------- C28
\* C28: at most one thread at a time is inside setTiltAngle, getTiltAngle, setLED or
\* getMotorStatus of the initialized device, and so inside a call of libfreenect's
\* motor functions.
C28_OneThreadInMotorCall ==
    device.initialized_ => Cardinality({t \in Threads : pc[t] \in MotorFunctions}) <= 1

\* One thread is inside setTiltAngle and the other one inside setLED of the initialized
\* device while the event thread is in freenect_process_events.
C28_Witness ==
    /\ device.initialized_
    /\ pc["t1"] = "setTiltAngle"
    /\ pc["t2"] = "setLED"
    /\ pump.pc = "events"

\* ---------------------------------------------------------------------- C29
\* C29: on every connection the first message the server sends is hello, it sends hello
\* no more than once, and once the handler of the opening has returned it has sent it.
C29_HelloFirst ==
    \A t \in Threads :
       /\ hSent[t].first \in {"", "hello"}
       /\ hSent[t].hellos <= 1
       /\ hSent[t].hellos = 0 <=> hSent[t].first = ""
       /\ conn[t] = "open" /\ pc[t] = "idle" => hSent[t].hellos = 1

\* An open connection has received its hello, then binary frames of both streams, and
\* last an error message.
C29_Witness ==
    /\ conn["t1"] = "open"
    /\ hSent["t1"].first = "hello"
    /\ hSent["t1"].frames[STREAM_TYPE_RGB] > 0
    /\ hSent["t1"].frames[STREAM_TYPE_DEPTH] > 0
    /\ hSent["t1"].last.type = "error"

\* ---------------------------------------------------------------------- C30
\* C30: startStreams returns NotInitialized on a device that is not open, AlreadyStreaming
\* on a streaming one, and InitializationFailed when a native call fails; stopStreams
\* returns NotInitialized on a device that is not open and NotStreaming on one that does
\* not stream; every one of these leaves the device's flags and the event thread as they
\* were.  A start that succeeds leaves the device streaming with one event thread, newly
\* started; a stop that succeeds has joined the event thread, which had left its loop,
\* and leaves the device not streaming.  The device streams exactly while an event
\* thread exists.
Failed(t, op, error) ==
    /\ ret'[t].op = op
    /\ ret'[t].res = error
    /\ pc'[t] = "idle"
    /\ device' = device
    /\ pump' = pump

C30_StreamStateMachine ==
    [][/\ \A failure \in StartFailures :
             startStreams("t1", failure)
               => IF ~device.initialized_
                  THEN Failed("t1", "startStreams", "NotInitialized")
                  ELSE IF device.streaming_
                  THEN Failed("t1", "startStreams", "AlreadyStreaming")
                  ELSE IF failure # "none"
                  THEN /\ Failed("t1", "startStreams", "InitializationFailed")
                       /\ ~device'.streaming_ /\ pump'.pc = "none"
                  ELSE device' = device /\ pump' = pump
       /\ startStreams_thread("t1")
            => /\ ret'["t1"].op = "startStreams" /\ ret'["t1"].res = "None"
               /\ pump.pc = "none" /\ pump'.pc = "loop"
               /\ device'.streaming_ /\ device'.eventThread_ = 1
       /\ stopStreams("t1")
            => IF ~device.initialized_
               THEN Failed("t1", "stopStreams", "NotInitialized")
               ELSE IF ~device.streaming_
               THEN Failed("t1", "stopStreams", "NotStreaming")
               ELSE device'.streaming_ /\ pump' = pump
       /\ stopStreams_join("t1")
            => /\ ret'["t1"].op = "stopStreams" /\ ret'["t1"].res = "None"
               /\ pump.pc = "exited" /\ pump'.pc = "none"
               /\ ~device'.streaming_ /\ device'.eventThread_ = 0
       /\ device'.streaming_ <=> pump'.pc # "none"
       /\ device'.streaming_ <=> device'.eventThread_ = 1]_vars

\* The streams of the initialized device were started and a stop has succeeded: the
\* device does not stream and has no event thread.
C30_Witness ==
    /\ ret["t1"].op = "stopStreams"
    /\ ret["t1"].res = "None"
    /\ device.initialized_
    /\ ~device.streaming_
    /\ pump.pc = "none"


\* ---------------------------------------------------------------------- C31
\* C31: the binary message broadcastFrame builds has a header of eight bytes: bytes 0-3
\* are the frame id, low byte first, bytes 4-5 the stream type, low byte first, 1 for rgb
\* and 2 for depth, bytes 6-7 are zero; the pixel data after it are 921600 bytes for rgb
\* and 614400 bytes for depth.
C31_BinaryHeader ==
    [][\A stream \in Streams :
          broadcastFrame(stream) /\ broadcaster.has[stream]
            => LET message == broadcaster'.message IN
               /\ Len(message) = 9
               /\ \A i \in 1..8 : message[i] \in 0..255
               /\ message[1] + 256 * message[2] + 65536 * message[3]
                    + 16777216 * message[4] = broadcaster.frameId
               /\ message[5] + 256 * message[6] = (IF stream = "rgb" THEN 1 ELSE 2)
               /\ message[7] = 0 /\ message[8] = 0
               /\ message[9] = (IF stream = "rgb" THEN 921600 ELSE 614400)]_vars

\* The depth frame with the id 0x7F00FF01 has been built.
C31_Witness ==
    /\ broadcaster.pc = "schedule"
    /\ broadcaster.message = <<1, 255, 0, 127, 2, 0, 0, 0, 614400>>


\* ---------------------------------------------------------------------- C32
\* C32: endSession leaves the frame-in-progress flag of the session as it is, in both of
\* its steps and whatever it returns, so a session ended between beginFrame and endFrame
\* has frameInProgress set afterwards; and beginFrame on a running session whose flag is
\* set returns XR_ERROR_CALL_ORDER_INVALID and leaves the flag set.
C32_EndSessionKeepsFrame ==
    [][\A s \in SessionIds :
          /\ (endSession("t1", s) \/ (endSession_queue("t1") /\ frame["t1"].a = s))
             /\ s \in DOMAIN sessions_
               => /\ s \in DOMAIN sessions_'
                  /\ sessions_'[s].frameState = sessions_[s].frameState
          /\ beginFrame("t1", s) /\ s \in DOMAIN sessions_
             /\ sessions_[s].state \in RunningStates
             /\ sessions_[s].frameState.frameInProgress
               => /\ ret'["t1"].res = "XR_ERROR_CALL_ORDER_INVALID"
                  /\ sessions_' = sessions_]_vars

\* endSession has returned XR_SUCCESS on a session with a frame in progress: the
\* session is IDLE and the flag is set.
C32_Witness ==
    /\ ret["t1"].op = "endSession"
    /\ ret["t1"].res = "XR_SUCCESS"
    /\ ret["t1"].a \in DOMAIN sessions_
    /\ sessions_[ret["t1"].a].state = "IDLE"
    /\ sessions_[ret["t1"].a].frameState.frameInProgress


\* ---------------------------------------------------------------------- C33
\* C33: when the server is not in mock mode, frameId of frameCache_ is advanced only by
\* the depth callback, which adds exactly one to it as it finishes its write; the video
\* callback and every other step leave it as it is.  As it is 0 after construction, it
\* is at every time the number of depth frames written so far.
DepthWrite == frameCallback_copy /\ device.cache = "frameCache_" /\ pump.stream = "depth"

C33_FrameIdCountsDepth ==
    [][~server.mockMode_
         => /\ DepthWrite
                 => frameCache'["frameCache_"].frameId = frameCache["frameCache_"].frameId + 1
            /\ ~DepthWrite
                 => frameCache'["frameCache_"].frameId = frameCache["frameCache_"].frameId]_vars

\* A video frame has been written after the first depth frame, and frameId is 1.
C33_Witness ==
    /\ frameCache["frameCache_"].frameId = 1
    /\ frameCache["frameCache_"].depth.timestamp = 1
    /\ frameCache["frameCache_"].rgb.timestamp = MaxTimestamp
    /\ pump.pc = "events"

\* C34: the pacing of the broadcast thread.  After a tick taken at time now the thread
\* advances nextFrameTime by the frame period; when the result is earlier than now it
\* adds the whole periods between the result and now to droppedFrames_ and sets
\* nextFrameTime to now plus one period, and otherwise it keeps the result.  A tick is
\* taken only when nextFrameTime has come, after every tick nextFrameTime is at least
\* now, so that no further tick is overdue at the time of the tick whatever the length
\* of the stall, and droppedFrames_ never decreases.
C34_Pacing ==
    [][/\ server'.droppedFrames_ >= server.droppedFrames_
       /\ (broadcastLoop /\ broadcaster'.pc = "copy") => clock >= broadcaster.nextFrameTime
       /\ (broadcastLoop /\ broadcaster.pc = "schedule") =>
            LET now == broadcaster.now
                advanced == broadcaster.nextFrameTime + 33 IN
            /\ IF advanced < now
               THEN /\ server'.droppedFrames_ =
                         server.droppedFrames_ + (now - advanced) \div 33
                    /\ broadcaster'.nextFrameTime = now + 33
               ELSE /\ server'.droppedFrames_ = server.droppedFrames_
                    /\ broadcaster'.nextFrameTime = advanced
            /\ broadcaster'.nextFrameTime >= now
            /\ broadcaster'.nextFrameTime <= now + 33]_vars

\* A stall of three periods: the tick due at 34 ms is taken at 133 ms, two whole
\* periods are counted as dropped and the next tick is due a period later.
C34_Witness ==
    /\ broadcaster.pc = "loop"
    /\ broadcaster.now = 133
    /\ broadcaster.nextFrameTime = 166
    /\ server.droppedFrames_ = 2

\* ---------------------------------------------------------------------- C35
\* C35: every beginSession that returns XR_SUCCESS leaves the session FOCUSED and every
\* endSession that returns XR_SUCCESS leaves it IDLE, whether or not the instance of
\* the session is still alive: SYNCHRONIZED, VISIBLE and STOPPING are never the
\* stored state of the session once the call has returned.
C35_ReturnsFocusedOrIdle ==
    [][\A t \in Threads :
          /\ (beginSession_queue(t) /\ ret'[t].res = "XR_SUCCESS")
                => sessions_'[frame[t].a].state = "FOCUSED"
          /\ (endSession_queue(t) /\ ret'[t].res = "XR_SUCCESS")
                => sessions_'[frame[t].a].state = "IDLE"]_vars

\* endSession has returned XR_SUCCESS on a session whose instance is destroyed, and
\* the session is left STOPPING.
C35_Witness ==
    \E t \in Threads :
       /\ pc[t] = "idle"
       /\ ret[t].op = "endSession" /\ ret[t].res = "XR_SUCCESS"
       /\ ret[t].a \in DOMAIN sessions_
       /\ sessions_[ret[t].a].instance \notin DOMAIN instances_
       /\ sessions_[ret[t].a].state = "STOPPING"

\* With the instance alive the two calls do leave the session FOCUSED and IDLE.
C35_WithInstance ==
    [][\A t \in Threads :
          /\ (beginSession_queue(t) /\ sessions_[frame[t].a].instance \in DOMAIN instances_)
                => sessions_'[frame[t].a].state = "FOCUSED"
          /\ (endSession_queue(t) /\ sessions_[frame[t].a].instance \in DOMAIN instances_)
                => sessions_'[frame[t].a].state = "IDLE"]_vars

\* ---------------------------------------------------------------------- C36
\* The session is IDLE or STOPPING and no createSession or endSession is at work on it:
\* the state in which a successful endSession leaves it.
Ended(s) ==
    /\ s \in DOMAIN sessions_
    /\ sessions_[s].state \in {"IDLE", "STOPPING"}
    /\ \A t \in Threads : ~(pc[t] = "createSession_queue" /\ frame[t].h = s)
    /\ \A t \in Threads : ~(pc[t] = "endSession_queue" /\ frame[t].a = s)

\* An endSession that returns XR_SUCCESS leaves the session ended, and no step takes an
\* ended session, while it lives, to another state than IDLE or STOPPING.
EndedForGood ==
    /\ \A t \in Threads, s \in DOMAIN sessions_ :
          (endSession_queue(t) /\ frame[t].a = s /\ ret'[t].res = "XR_SUCCESS") => Ended(s)'
    /\ \A s \in DOMAIN sessions_ :
          (Ended(s) /\ s \in DOMAIN sessions_') => Ended(s)'
    /\ \A t \in Threads, s \in DOMAIN sessions_ :
          /\ (endSession(t, s) /\ Ended(s)) => ret'[t].res = "XR_ERROR_SESSION_NOT_RUNNING"
          /\ (destroySession(t, s) /\ Ended(s))
                => ret'[t].res = "XR_SUCCESS" /\ s \notin DOMAIN sessions_'

C37_DeviceIffRunning ==
    /\ []((\A t \in Threads : pc[t] = "idle")
             => \A s \in DOMAIN sessions_ :
                   sessions_[s].kinectDevice = "streaming"
                      <=> sessions_[s].state \in {"SYNCHRONIZED", "VISIBLE", "FOCUSED"})
    /\ [][\A s \in DOMAIN sessions_ :
             s \notin DOMAIN sessions_' => sessions_[s].kinectDevice = "null"]_vars

\* destroySession has erased session 1 of the live instance 1, which was begun, to
\* FOCUSED with its device, and ended, to IDLE without it.
C37_Witness ==
    /\ \A t \in Threads : pc[t] = "idle"
    /\ ret["t1"].op = "destroySession" /\ ret["t1"].res = "XR_SUCCESS" /\ ret["t1"].a = 1
    /\ 1 \notin DOMAIN sessions_
    /\ 1 \in DOMAIN hEnqueued
    /\ \E k \in 1..Len(hEnqueued[1]) : hEnqueued[1][k] = StateChangedEvent(1, "FOCUSED")
    /\ \E k \in 1..Len(hEnqueued[1]) : hEnqueued[1][k] = StateChangedEvent(1, "IDLE")

\* ---------------------------------------------------------------------- C38
\* beginSession of thread t on session s returns an error in this step.
BeginSessionFails(t, s) ==
    /\ \E v \in {"PRIMARY_MONO", "PRIMARY_STEREO"} : beginSession(t, s, v)
    /\ pc'[t] = "idle"
    /\ ret'[t].res # "XR_SUCCESS"

\* C38: a beginSession that returns an error leaves the session as it was, with its
\* state, its stored view configuration type and no device, and leaves the event
\* queues of the instances as they were.
C38_FailedBeginChangesNothing ==
    [][\A t \in Threads, s \in DOMAIN sessions_ :
          BeginSessionFails(t, s) => sessions_' = sessions_ /\ instances_' = instances_]_vars

\* beginSession has failed for want of a device on a READY session, which now has
\* the view configuration type of the call stored.
C38_Witness ==
    \E t \in Threads :
       /\ pc[t] = "idle"
       /\ ret[t].op = "beginSession" /\ ret[t].res = "XR_ERROR_FORM_FACTOR_UNAVAILABLE"
       /\ ret[t].a \in DOMAIN sessions_
       /\ sessions_[ret[t].a].state = "READY"
       /\ sessions_[ret[t].a].kinectDevice = "null"
       /\ sessions_[ret[t].a].viewConfigurationType = "PRIMARY_MONO"

\* The state, the device and the event queues are left as they were by every
\* beginSession that returns an error.
C38_FailedBeginKeepsState ==
    [][\A t \in Threads, s \in DOMAIN sessions_ :
          BeginSessionFails(t, s)
             => /\ sessions_'[s].state = sessions_[s].state
                /\ sessions_'[s].kinectDevice = sessions_[s].kinectDevice
                /\ instances_' = instances_]_vars

\* ---------------------------------------------------------------------- C39
\* C39: the cache of the session is written only by the event thread of the streaming
\* device; stopStreams clears the flag of the event thread, and when the device is
\* released the event thread has been joined, so that once endSession has returned no
\* event thread is left to write the cache; and the join in stopStreams always
\* returns: an endSession that waits in it returns.
C39_NoWriteAfterEndSession ==
    /\ [][/\ frameCache'["frameCache"] # frameCache["frameCache"]
               => device.streaming_ /\ pump.pc \in {"events", "copy"}
          /\ \A t \in Threads :
                /\ (stopStreams(t) /\ pc'[t] = "stopStreams_join")
                      => ~device'.eventThreadRunning_
                /\ endSession_reset(t) => pump.pc = "none" /\ ~device.streaming_]_vars
    /\ [](\A t \in Threads :
             (pc[t] = "idle" /\ ret[t].op = "endSession")
                => pump.pc = "none" /\ ~device.streaming_ /\ mutex["frameCache"] # "pump")
    /\ \A t \in Threads :
          (pc[t] = "stopStreams_join") ~> (pc[t] = "idle" /\ ret[t].op = "endSession")

\* endSession has returned after frames of both streams were written to the cache of
\* the session, the last one while stopStreams was waiting for the event thread.
C39_Witness ==
    /\ pc["t1"] = "idle" /\ ret["t1"].op = "endSession"
    /\ pump = NoPump
    /\ device = KinectDevice
    /\ frameCache["frameCache"].depth.valid
    /\ frameCache["frameCache"].rgb.valid
    /\ frameCache["frameCache"].rgb.timestamp = MaxTimestamp

\* ---------------------------------------------------------------------- C40
\* C40: the data of a session is not read once destroySession has erased the session:
\* when createSwapchain reads the GPU device and when waitSwapchainImage reads the frame
\* cache through the pointer getSessionData gave them, the session is in the table.
C40_NoUseAfterDestroy ==
    [][\A t \in Threads :
          /\ createSwapchain_textures(t) => frame[t].a \in DOMAIN sessions_
          /\ (waitSwapchainImage_uploadTexture(t) /\ swapchains_[frame[t].a].metalTextures)
                => swapchains_[frame[t].a].session \in DOMAIN sessions_]_vars

\* waitSwapchainImage of thread t1 has the pointer to the data of a session with a
\* video frame in its cache and is about to read the cache for its texture, and
\* destroySession of thread t2 has erased the session and returned.
C40_Witness ==
    /\ pc["t1"] = "waitSwapchainImage_uploadTexture"
    /\ swapchains_[frame["t1"].a].metalTextures
    /\ swapchains_[frame["t1"].a].session \notin DOMAIN sessions_
    /\ pc["t2"] = "idle"
    /\ ret["t2"].op = "destroySession" /\ ret["t2"].res = "XR_SUCCESS"
    /\ ret["t2"].a = swapchains_[frame["t1"].a].session
    /\ \E k \in 1..Len(hEnqueued[1]) :
          hEnqueued[1][k] = StateChangedEvent(ret["t2"].a, "IDLE")

====
